---------------------------- MODULE Spec2Model ----------------------------
(***************************************************************************)
(* Model of go-kardia's consensus gossip core:                             *)
(*   - the per-peer round-state mirror (PeerState / PeerRoundState) and    *)
(*     the handlers that update it   (src/blockchain/headerchain.go),      *)
(*   - the evidence reactor's per-peer broadcast routine                   *)
(*                                   (src/unnamed/part_000).               *)
(*                                                                         *)
(* Spec        the mirror as NewPeerState constructs it, driven by the     *)
(*             handlers and the PeerState methods.                         *)
(* SpecSeeded  the same operations applied to mirrors drawn from a bounded *)
(*             set of PeerRoundState values (PeerState.PRS is an exported  *)
(*             field; the handlers are checked as functions of it).        *)
(* EvSpec      the evidence broadcast routine of one peer.                 *)
(* EvLive      EvSpec with the routine scheduled fairly.                   *)
(* RcvSpec     the evidence reactor's Receive.                             *)
(* ReactorSpec the five handlers of the consensus reactor, ps.mtx and      *)
(*             peerMsgQueue.                                               *)
(* DataSpec    the data gossip routine of one peer, scheduled fairly.      *)
(* HcSpec      HeaderChain.SetHead with concurrent lookups                 *)
(*                                   (src/blockchain/headerchain.go).      *)
(***************************************************************************)
EXTENDS Integers, Sequences, FiniteSets, TLC

VARIABLES
    running,  \* conR.running
    prs,      \* ps.PRS: the peer round state held by the mirror
    last      \* history: the last mirror operation, its input and the PRS before it

mirrorVars == <<running, prs, last>>

VARIABLES
    evList,        \* the pool's pending-evidence list: every element ever pushed
    evFront,       \* the list's head element (0: none)
    evState,       \* evpool.State(): LastBlockTime
    peerState,     \* what peer.Get(PeerStateKey) holds: has, Height
    stopped,       \* which of peer.IsRunning() / evR.IsRunning() has turned false
    brPc,          \* broadcastEvidenceRoutine: where the routine is
    brNext,        \* broadcastEvidenceRoutine: its local next (0: nil)
    brLast         \* history: the routine's last call of checkSendEvidenceMessage

evVars == <<evList, evFront, evState, peerState, stopped, brPc, brNext, brLast>>

VARIABLES
    evPool,        \* the evidence the pool has accepted from Receive
    srcPeer,       \* the peer Receive reads from: "connected" or "stopped"
    rcvLast        \* history: the last call of Receive, its frame and its calls

rcvVars == <<evPool, srcPeer, rcvLast>>

VARIABLES
    mtxLocked,     \* ps.mtx is held
    peerMsgQueue,  \* conR.conS.peerMsgQueue: the msgInfo values not yet consumed
    peerAlive      \* peer.IsAlive

reactorVars == <<mtxLocked, peerMsgQueue, peerAlive>>

VARIABLES
    rs,            \* conR.conS.GetRoundState(): Height, Round, Proposal
    gdPc,          \* gossipDataRoutine: where the routine is
    gdProposal,    \* gossipDataRoutine: rs.Proposal of the iteration's copy of rs
    gdSends,       \* history: how many times the routine has sent a ProposalMessage
    gdLast,        \* history: the routine's last send of a ProposalMessage
    gdSentHR       \* history: the (height, round) of the proposals it has sent

dataVars == <<rs, gdPc, gdProposal, gdSends, gdLast, gdSentHR>>

VARIABLES
    chainDb,           \* hc.chainDb: headers, heights, canonical, headHeaderHash
    headerCache,       \* hc.headerCache: the headers cached, each under its hash
    heightCache,       \* hc.heightCache: the (hash, height) entries cached
    currentHeader,     \* hc.currentHeader
    currentHeaderHash, \* hc.currentHeaderHash
    shPc,              \* SetHead: where the call is
    shHead,            \* SetHead: its argument head
    shHeight,          \* SetHead: its local height
    shBatch,           \* SetHead: the deletions its batch holds
    shLast,            \* history: the last call of SetHead
    rdPc,              \* a concurrent lookup: where the call is
    rdHeld,            \* a concurrent lookup: what it has read from the database
    rdLast             \* history: the last lookup

hcVars == <<chainDb, headerCache, heightCache, currentHeader, currentHeaderHash,
           shPc, shHead, shHeight, shBatch, shLast, rdPc, rdHeld, rdLast>>

VARIABLES
    signProposal,  \* a types.Proposal made by NewProposal, or nil
    signChainID,   \* the chainID its bytes are signed for
    signLast,      \* history: the last operation on the proposal
    rlpIn,         \* EncodeThenDecode: the SimpleSet x
    rlpBuf,        \* EncodeThenDecode: the bytes.Buffer b
    rlpOut,        \* EncodeThenDecode: the SimpleSet y
    rlpPc          \* EncodeThenDecode: where the call is

codecVars == <<signProposal, signChainID, signLast, rlpIn, rlpBuf, rlpOut, rlpPc>>

(* What the operations of one component leave alone *)
nonMirrorVars == <<evVars, rcvVars, reactorVars, dataVars, hcVars, codecVars>>
nonEvVars == <<mirrorVars, rcvVars, reactorVars, dataVars, hcVars, codecVars>>
nonRcvVars == <<mirrorVars, evVars, reactorVars, dataVars, hcVars, codecVars>>
nonHcVars == <<mirrorVars, evVars, rcvVars, reactorVars, dataVars, codecVars>>

-----------------------------------------------------------------------------
(* Bounds of the model *)

MaxHeight == 2
MaxRound == 1
NumValidators == 2

(* Evidence: elements pushed, heights of a peer, the pool's parameters *)
MaxEvidence == 2
MaxPeerHeight == 3
MaxAgeNumBlocks == 1
MaxAgeDuration == 1

(* time.Now() as read by ReceiveNewRoundStep: one clock reading *)
Now == 5

Heights == 0..MaxHeight
Rounds == -1..MaxRound
Secs == {0, 1}
POLRounds == {-1, 0}
Indexes == 0..(NumValidators - 1)

-----------------------------------------------------------------------------
(* Values *)

(* cmn.Hash{} *)
ZeroHash == 0
BlockHashes == {1}

(* cstypes.RoundStepType: 0 is the Go zero value NewPeerState leaves in    *)
(* Step; the named steps are ordered NewHeight < NewRound < Propose <      *)
(* Prevote < PrevoteWait < Precommit < PrecommitWait < Commit.             *)
StepNames == <<"NewHeight", "NewRound", "Propose", "Prevote", "PrevoteWait",
               "Precommit", "PrecommitWait", "Commit">>
StepUnset == 0
MsgSteps == {1, 3}

VoteTypes == {"Prevote", "Precommit", "Invalid"}

(* A *cmn.BitArray: nil, or an allocated array of NumValidators bits given *)
(* by the set of indexes that are true.                                    *)
NilBits == [alloc |-> FALSE, bits |-> {}]
EmptyBits == [alloc |-> TRUE, bits |-> {}]
BitArrays == {NilBits} \cup [alloc : {TRUE}, bits : SUBSET Indexes]

(* BitArray.SetIndex(i, true): false and no change when i is out of range  *)
SetIndex(b, i) ==
    IF i \in Indexes THEN [b EXCEPT !.bits = @ \cup {i}] ELSE b

NoMsg == [none |-> TRUE]

-----------------------------------------------------------------------------
(* Messages as decoded from the wire *)

NewRoundStepMessages ==
    [Height : Heights, Round : Rounds, Step : MsgSteps,
     SecondsSinceStartTime : Secs, LastCommitRound : Rounds]

Proposals ==
    [Height : Heights, Round : Rounds, POLRound : POLRounds, BlockHash : BlockHashes]

HasVoteMessages ==
    [Height : Heights, Round : Rounds, Type : VoteTypes, Index : Indexes]

(* A p2p.Msg: generalMsg.Decode fails on a malformed frame *)
Malformed == [ok |-> FALSE, msg |-> NoMsg]
Wires(msgs) == {Malformed} \cup [ok : {TRUE}, msg : msgs]

-----------------------------------------------------------------------------
(* PeerState *)

NewPeerState ==
    [Height |-> 0, Round |-> -1, Step |-> StepUnset, StartTime |-> 0,
     Proposal |-> FALSE, ProposalBlockHeader |-> ZeroHash,
     ProposalPOLRound |-> -1, ProposalPOL |-> NilBits,
     Prevotes |-> NilBits, Precommits |-> NilBits,
     LastCommitRound |-> -1, LastCommit |-> NilBits,
     CatchupCommitRound |-> -1, CatchupCommit |-> NilBits]

(* ps.GetRoundState(): a copy of the PRS taken under the mutex *)
GetRoundState(ps) == ps

(* Lexicographic comparison of (h1, r1, s1) with (h2, r2, s2): -1, 0 or 1 *)
CompareHRS(h1, r1, s1, h2, r2, s2) ==
    IF h1 < h2 THEN -1
    ELSE IF h1 > h2 THEN 1
    ELSE IF r1 < r2 THEN -1
    ELSE IF r1 > r2 THEN 1
    ELSE IF s1 < s2 THEN -1
    ELSE IF s1 > s2 THEN 1
    ELSE 0

(* Variant of BigInt.Equals that holds of any two values *)
EqualsAnything(a, b) == TRUE

(* BigInt.Equals: comparison of the values *)
Equals(a, b) == a = b

(* Go's == on two *cmn.BigInt compares the pointers.  One operand is a     *)
(* field of the message generalMsg.Decode has just allocated, the other a  *)
(* pointer the mirror already held: they are never the same object.        *)
SamePointer(stored, decoded) == FALSE

(* Variants of the guard: one that looks at the height alone, one that    *)
(* lets a duplicate through.                                               *)
IgnoreLowerHeightOnly(ps, msg) == msg.Height < ps.Height

IgnoreDecreasesOnly(ps, msg) ==
    CompareHRS(msg.Height, msg.Round, msg.Step, ps.Height, ps.Round, ps.Step) < 0

(* "Ignore duplicates or decreases" *)
IgnoreNewRoundStep(ps, msg) ==
    CompareHRS(msg.Height, msg.Round, msg.Step, ps.Height, ps.Round, ps.Step) <= 0

(* ps.PRS.Height/Round/Step/StartTime = ... *)
AssignHRS(ps, msg, now) ==
    [ps EXCEPT !.Height = msg.Height, !.Round = msg.Round, !.Step = msg.Step,
               !.StartTime = now - msg.SecondsSinceStartTime]

(* Variant: the round fields reset on every accepted update *)
ResetRoundFieldsAlways(ps, psHeight, psRound, msg) ==
    [ps EXCEPT !.Proposal = FALSE, !.ProposalBlockHeader = ZeroHash,
               !.ProposalPOLRound = -1, !.ProposalPOL = NilBits,
               !.Prevotes = NilBits, !.Precommits = NilBits]

(* Variant: the round fields reset on a change of height only *)
ResetRoundFieldsOnHeightOnly(ps, psHeight, psRound, msg) ==
    IF ~Equals(psHeight, msg.Height)
    THEN [ps EXCEPT !.Proposal = FALSE, !.ProposalBlockHeader = ZeroHash,
                    !.ProposalPOLRound = -1, !.ProposalPOL = NilBits,
                    !.Prevotes = NilBits, !.Precommits = NilBits]
    ELSE ps

(* if !psHeight.Equals(msg.Height) || !psRound.Equals(msg.Round) { ... } *)
ResetRoundFields(ps, psHeight, psRound, msg) ==
    IF ~Equals(psHeight, msg.Height) \/ ~Equals(psRound, msg.Round)
    THEN [ps EXCEPT !.Proposal = FALSE, !.ProposalBlockHeader = ZeroHash,
                    !.ProposalPOLRound = -1, !.ProposalPOL = NilBits,
                    !.Prevotes = NilBits, !.Precommits = NilBits]
    ELSE ps

(* if psHeight == msg.Height && psRound != msg.Round &&                    *)
(*    msg.Round == psCatchupCommitRound { ps.PRS.Precommits = ... }        *)
RestoreCatchupCommit(ps, psHeight, psRound, psCatchupCommitRound, psCatchupCommit, msg) ==
    IF /\ SamePointer(psHeight, msg.Height)
       /\ ~SamePointer(psRound, msg.Round)
       /\ SamePointer(psCatchupCommitRound, msg.Round)
    THEN [ps EXCEPT !.Precommits = psCatchupCommit]
    ELSE ps

(* if psHeight != msg.Height { shift Precommits to LastCommit ... } *)
ShiftLastCommit(ps, psHeight, psRound, msg) ==
    IF ~SamePointer(psHeight, msg.Height)
    THEN LET shifted ==
                 IF Equals(psHeight + 1, msg.Height) /\ Equals(psRound, msg.LastCommitRound)
                 THEN [ps EXCEPT !.LastCommitRound = msg.LastCommitRound,
                                 !.LastCommit = ps.Precommits]
                 ELSE [ps EXCEPT !.LastCommitRound = msg.LastCommitRound,
                                 !.LastCommit = NilBits]
         IN [shifted EXCEPT !.CatchupCommitRound = -1, !.CatchupCommit = NilBits]
    ELSE ps

(* The locked section of ReceiveNewRoundStep for a mirror ps *)
ApplyNewRoundStep(ps, msg, now) ==
    IF IgnoreNewRoundStep(ps, msg) THEN ps
    ELSE LET psHeight == ps.Height
             psRound == ps.Round
             psCatchupCommitRound == ps.CatchupCommitRound
             psCatchupCommit == ps.CatchupCommit
             s1 == AssignHRS(ps, msg, now)
             s2 == ResetRoundFields(s1, psHeight, psRound, msg)
             s3 == RestoreCatchupCommit(s2, psHeight, psRound,
                                        psCatchupCommitRound, psCatchupCommit, msg)
         IN ShiftLastCommit(s3, psHeight, psRound, msg)

(* Variant: no check of the proposal's height and round *)
SetHasProposalAnyHR(ps, proposal) ==
    IF ps.Proposal THEN ps
    ELSE [ps EXCEPT !.Proposal = TRUE,
                    !.ProposalBlockHeader = proposal.BlockHash,
                    !.ProposalPOLRound = proposal.POLRound,
                    !.ProposalPOL = NilBits]

(* ps.SetHasProposal(proposal) *)
SetHasProposal(ps, proposal) ==
    IF ~Equals(ps.Height, proposal.Height) \/ ~Equals(ps.Round, proposal.Round) THEN ps
    ELSE IF ps.Proposal THEN ps
    ELSE [ps EXCEPT !.Proposal = TRUE,
                    !.ProposalBlockHeader = proposal.BlockHash,
                    !.ProposalPOLRound = proposal.POLRound,
                    !.ProposalPOL = NilBits]

(* types.IsVoteTypeValid *)
IsVoteTypeValid(type) == type \in {"Prevote", "Precommit"}

(* Variant of the lookup without the ProposalPOL branch *)
getVoteBitArrayFieldNoPOL(ps, height, round, type) ==
    IF ~IsVoteTypeValid(type) THEN "none"
    ELSE IF Equals(ps.Height, height)
    THEN IF Equals(ps.Round, round)
         THEN (IF type = "Prevote" THEN "Prevotes" ELSE "Precommits")
         ELSE "none"
    ELSE IF Equals(ps.Height, height + 1) /\ Equals(ps.LastCommitRound, round)
    THEN (IF type = "Prevote" THEN "none" ELSE "LastCommit")
    ELSE "none"

(* The field of the PRS whose bit array ps.getVoteBitArray returns, "none" *)
(* where it returns the nil literal.                                       *)
getVoteBitArrayField(ps, height, round, type) ==
    IF ~IsVoteTypeValid(type) THEN "none"
    ELSE IF Equals(ps.Height, height)
    THEN IF Equals(ps.Round, round)
         THEN (IF type = "Prevote" THEN "Prevotes" ELSE "Precommits")
         ELSE IF Equals(ps.ProposalPOLRound, round)
         THEN (IF type = "Prevote" THEN "ProposalPOL" ELSE "none")
         ELSE "none"
    ELSE IF Equals(ps.Height, height + 1)
    THEN IF Equals(ps.LastCommitRound, round)
         THEN (IF type = "Prevote" THEN "none" ELSE "LastCommit")
         ELSE "none"
    ELSE "none"

getVoteBitArray(ps, height, round, type) ==
    LET f == getVoteBitArrayField(ps, height, round, type)
    IN IF f = "none" THEN NilBits ELSE ps[f]

(* ps.setHasVote: "some may be nil BitArrays -> no side effects" *)
setHasVote(ps, height, round, type, index) ==
    LET f == getVoteBitArrayField(ps, height, round, type)
    IN IF f # "none" /\ ps[f].alloc
       THEN [ps EXCEPT ![f] = SetIndex(@, index)]
       ELSE ps

(* ps.SetHasVote(vote) *)
SetHasVote(ps, vote) ==
    setHasVote(ps, vote.Height, vote.Round, vote.Type, vote.Index)

(* Variant: no check of the message's height *)
ApplyHasVoteMessageAnyHeight(ps, msg) ==
    setHasVote(ps, msg.Height, msg.Round, msg.Type, msg.Index)

(* ps.ApplyHasVoteMessage(msg) *)
ApplyHasVoteMessage(ps, msg) ==
    IF ~Equals(ps.Height, msg.Height) THEN ps
    ELSE setHasVote(ps, msg.Height, msg.Round, msg.Type, msg.Index)

-----------------------------------------------------------------------------
(* Handlers of the consensus reactor and calls into the mirror *)

NoOp == [op |-> "none", ret |-> "none", msg |-> NoMsg, pre |-> NewPeerState,
         queue |-> <<>>]

(* One operation of the mirror runs at a time: the handlers are called one *)
(* after the other by the peer's read loop, and the methods take ps.mtx.   *)
(* last holds the operation that has just run, until its caller has        *)
(* returned.                                                               *)
Idle == last = NoOp

Handled(op, ret, msg) ==
    [op |-> op, ret |-> ret, msg |-> msg, pre |-> prs, queue |-> peerMsgQueue]

(* conR.ReceiveNewRoundStep(generalMsg, src) *)
ReceiveNewRoundStepFrom(msgs) ==
    /\ Idle
    /\ \E wire \in Wires(msgs) :
        IF ~running
        THEN /\ last' = Handled("ReceiveNewRoundStep", "not_running", NoMsg)
             /\ UNCHANGED <<running, prs, nonMirrorVars>>
        ELSE IF ~wire.ok
        THEN /\ last' = Handled("ReceiveNewRoundStep", "decode_error", NoMsg)
             /\ UNCHANGED <<running, prs, nonMirrorVars>>
        ELSE IF mtxLocked
        THEN /\ last' = Handled("ReceiveNewRoundStep", "blocked", NoMsg)
             /\ UNCHANGED <<running, prs, nonMirrorVars>>
        ELSE /\ prs' = ApplyNewRoundStep(prs, wire.msg, Now)
             /\ last' = Handled("ReceiveNewRoundStep",
                                IF IgnoreNewRoundStep(prs, wire.msg)
                                THEN "ignored" ELSE "applied",
                                wire.msg)
             /\ UNCHANGED <<running, nonMirrorVars>>

ReceiveNewRoundStep == ReceiveNewRoundStepFrom(NewRoundStepMessages)

(* ps.SetHasProposal(proposal), as called by ReceiveNewProposal and by the *)
(* data gossip routine                                                     *)
CallSetHasProposal ==
    /\ Idle
    /\ ~mtxLocked
    /\ \E proposal \in Proposals :
        /\ prs' = SetHasProposal(prs, proposal)
        /\ last' = Handled("SetHasProposal", "returned", proposal)
        /\ UNCHANGED <<running, nonMirrorVars>>

(* conR.ReceiveHasVote(generalMsg, src) *)
ReceiveHasVote ==
    /\ Idle
    /\ \E wire \in Wires(HasVoteMessages) :
        IF ~running
        THEN /\ last' = Handled("ReceiveHasVote", "not_running", NoMsg)
             /\ UNCHANGED <<running, prs, nonMirrorVars>>
        ELSE IF ~wire.ok
        THEN /\ last' = Handled("ReceiveHasVote", "decode_error", NoMsg)
             /\ UNCHANGED <<running, prs, nonMirrorVars>>
        ELSE IF mtxLocked
        THEN /\ last' = Handled("ReceiveHasVote", "blocked", NoMsg)
             /\ UNCHANGED <<running, prs, nonMirrorVars>>
        ELSE /\ prs' = ApplyHasVoteMessage(prs, wire.msg)
             /\ last' = Handled("ReceiveHasVote", "returned", wire.msg)
             /\ UNCHANGED <<running, nonMirrorVars>>

(* ps.SetHasVote(vote), the callback of the consensus state *)
CallSetHasVote ==
    /\ Idle
    /\ ~mtxLocked
    /\ \E vote \in HasVoteMessages :
        /\ prs' = SetHasVote(prs, vote)
        /\ last' = Handled("SetHasVote", "returned", vote)
        /\ UNCHANGED <<running, nonMirrorVars>>

(* msgInfo{&msg, src.ID()}: the model has one peer *)
SrcID == "src"
msgInfo(msg, peerID) == [Msg |-> msg, PeerID |-> peerID]

(* Capacity of conS.peerMsgQueue *)
MsgQueueSize == 1

VoteMessages == HasVoteMessages
CommitStepMessages == [Height : Heights, BlockHash : BlockHashes]

(* conR.ReceiveNewProposal(generalMsg, src) *)
ReceiveNewProposal ==
    /\ Idle
    /\ \E wire \in Wires(Proposals) :
        IF ~running
        THEN /\ last' = Handled("ReceiveNewProposal", "not_running", NoMsg)
             /\ UNCHANGED <<running, prs, nonMirrorVars>>
        ELSE IF ~wire.ok
        THEN /\ last' = Handled("ReceiveNewProposal", "decode_error", NoMsg)
             /\ UNCHANGED <<running, prs, nonMirrorVars>>
        ELSE IF mtxLocked
        THEN /\ last' = Handled("ReceiveNewProposal", "blocked", NoMsg)
             /\ UNCHANGED <<running, prs, nonMirrorVars>>
        ELSE /\ Len(peerMsgQueue) < MsgQueueSize
             /\ prs' = SetHasProposal(prs, wire.msg)
             /\ peerMsgQueue' = Append(peerMsgQueue, msgInfo(wire.msg, SrcID))
             /\ last' = Handled("ReceiveNewProposal", "returned", wire.msg)
             /\ UNCHANGED <<running, evVars, rcvVars, dataVars, hcVars, codecVars, mtxLocked, peerAlive>>

(* conR.ReceiveNewVote(generalMsg, src): ps.mtx.Lock(); return; the        *)
(* deferred Unlock after the return is never registered                    *)
ReceiveNewVote ==
    /\ Idle
    /\ \E wire \in Wires(VoteMessages) :
        IF ~running
        THEN /\ last' = Handled("ReceiveNewVote", "not_running", NoMsg)
             /\ UNCHANGED <<running, prs, nonMirrorVars>>
        ELSE IF ~wire.ok
        THEN /\ last' = Handled("ReceiveNewVote", "decode_error", NoMsg)
             /\ UNCHANGED <<running, prs, nonMirrorVars>>
        ELSE IF mtxLocked
        THEN /\ last' = Handled("ReceiveNewVote", "blocked", NoMsg)
             /\ UNCHANGED <<running, prs, nonMirrorVars>>
        ELSE /\ mtxLocked' = TRUE
             /\ last' = Handled("ReceiveNewVote", "returned", wire.msg)
             /\ UNCHANGED <<running, prs, evVars, rcvVars, dataVars, hcVars, codecVars, peerMsgQueue, peerAlive>>

(* conR.ReceiveNewCommit(generalMsg, src): ps.mtx.Lock(); return *)
ReceiveNewCommit ==
    /\ Idle
    /\ \E wire \in Wires(CommitStepMessages) :
        IF ~running
        THEN /\ last' = Handled("ReceiveNewCommit", "not_running", NoMsg)
             /\ UNCHANGED <<running, prs, nonMirrorVars>>
        ELSE IF ~wire.ok
        THEN /\ last' = Handled("ReceiveNewCommit", "decode_error", NoMsg)
             /\ UNCHANGED <<running, prs, nonMirrorVars>>
        ELSE IF mtxLocked
        THEN /\ last' = Handled("ReceiveNewCommit", "blocked", NoMsg)
             /\ UNCHANGED <<running, prs, nonMirrorVars>>
        ELSE /\ mtxLocked' = TRUE
             /\ last' = Handled("ReceiveNewCommit", "returned", wire.msg)
             /\ UNCHANGED <<running, prs, evVars, rcvVars, dataVars, hcVars, codecVars, peerMsgQueue, peerAlive>>

(* The consensus state takes the next msgInfo off peerMsgQueue *)
ConsumePeerMsg ==
    /\ Idle
    /\ peerMsgQueue # <<>>
    /\ peerMsgQueue' = Tail(peerMsgQueue)
    /\ UNCHANGED <<mirrorVars, evVars, rcvVars, dataVars, hcVars, codecVars, mtxLocked, peerAlive>>

(* conR.Start() and conR.Stop() *)
Start ==
    /\ Idle
    /\ ~running
    /\ running' = TRUE
    /\ UNCHANGED <<prs, last, nonMirrorVars>>

StopReactor ==
    /\ Idle
    /\ running
    /\ running' = FALSE
    /\ UNCHANGED <<prs, last, nonMirrorVars>>

-----------------------------------------------------------------------------
(* The data gossip routine of one peer *)

(* Times the routine's sends of a ProposalMessage are counted *)
MaxSends == 2

NoProposal == [none |-> TRUE]

(* cstypes.RoundState as the routine reads it: rs.Proposal is nil or the   *)
(* proposal of rs.Height and rs.Round                                      *)
RoundStates ==
    {r \in [Height : 1..MaxHeight, Round : 0..MaxRound,
            Proposal : Proposals \cup {NoProposal}] :
        r.Proposal # NoProposal =>
            r.Proposal.Height = r.Height /\ r.Proposal.Round = r.Round}

NoSend == [sent |-> FALSE]

(* The height and round of a proposal or of a round state *)
HR(x) == [Height |-> x.Height, Round |-> x.Round]

(* OUTER_LOOP: the checks of one iteration up to the send *)
GdLoopHead ==
    /\ gdPc = "loop"
    /\ IF ~peerAlive \/ ~running
       THEN gdPc' = "done" /\ UNCHANGED gdProposal
       ELSE IF mtxLocked
       THEN gdPc' = "blocked" /\ UNCHANGED gdProposal
       ELSE LET gprs == GetRoundState(prs)
            IN IF gprs.Height > 0 /\ gprs.Height < rs.Height
               THEN gdPc' = "panic" /\ UNCHANGED gdProposal
               ELSE IF ~Equals(rs.Height, gprs.Height) \/ ~Equals(rs.Round, gprs.Round)
               THEN gdPc' = "sleep" /\ UNCHANGED gdProposal
               ELSE IF rs.Proposal # NoProposal /\ ~gprs.Proposal
               THEN gdPc' = "send" /\ gdProposal' = rs.Proposal
               ELSE gdPc' = "sleep" /\ UNCHANGED gdProposal
    /\ UNCHANGED <<rs, gdSends, gdLast, gdSentHR>>
    /\ UNCHANGED <<mirrorVars, evVars, rcvVars, reactorVars, hcVars, codecVars>>

(* p2p.Send(peerConn.rw, CsProposalMsg, msg) returning err, then           *)
(* ps.SetHasProposal(rs.Proposal), then the ProposalPOLMessage             *)
GdSendProposal ==
    /\ gdPc = "send"
    /\ gdSends < MaxSends
    /\ \E err \in BOOLEAN :
         /\ gdSends' = gdSends + 1
         /\ gdLast' = [sent |-> TRUE, err |-> err, proposal |-> gdProposal,
                       pol |-> gdProposal.POLRound >= 0 /\ ~mtxLocked,
                       again |-> HR(gdProposal) \in gdSentHR]
    /\ gdSentHR' = gdSentHR \cup {HR(gdProposal)}
    /\ IF mtxLocked
       THEN gdPc' = "blocked" /\ UNCHANGED prs
       ELSE gdPc' = "loop" /\ prs' = SetHasProposal(prs, gdProposal)
    /\ UNCHANGED <<rs, gdProposal>>
    /\ UNCHANGED <<running, last, evVars, rcvVars, reactorVars, hcVars, codecVars>>

(* time.Sleep(conR.conS.config.PeerGossipSleep()); continue OUTER_LOOP *)
GdSleep ==
    /\ gdPc = "sleep"
    /\ gdPc' = "loop"
    /\ UNCHANGED <<rs, gdProposal, gdSends, gdLast, gdSentHR>>
    /\ UNCHANGED <<mirrorVars, evVars, rcvVars, reactorVars, hcVars, codecVars>>

(* The consensus state moves to a later round or height, or receives the   *)
(* proposal of its round                                                   *)
LocalStateAdvances ==
    /\ \E r \in RoundStates :
         /\ \/ r.Height > rs.Height
            \/ r.Height = rs.Height /\ r.Round > rs.Round
            \/ /\ r.Height = rs.Height /\ r.Round = rs.Round
               /\ rs.Proposal = NoProposal /\ r.Proposal # NoProposal
         /\ rs' = r
    /\ UNCHANGED <<gdPc, gdProposal, gdSends, gdLast, gdSentHR>>
    /\ UNCHANGED <<mirrorVars, evVars, rcvVars, reactorVars, hcVars, codecVars>>

(* The peer disconnects *)
PeerDies ==
    /\ peerAlive
    /\ peerAlive' = FALSE
    /\ UNCHANGED <<mtxLocked, peerMsgQueue>>
    /\ UNCHANGED <<mirrorVars, evVars, rcvVars, dataVars, hcVars, codecVars>>

(* The caller of the operation that has just run returns; a handler that   *)
(* waits in ps.mtx.Lock() does not                                         *)
Return ==
    /\ ~Idle
    /\ last.ret # "blocked"
    /\ last' = NoOp
    /\ UNCHANGED <<running, prs, nonMirrorVars>>

-----------------------------------------------------------------------------
(* The evidence reactor: the pool's pending list and one peer's routine    *)

(* time.Millisecond, in time.Duration's unit *)
Millisecond == 1000000

EvHeights == 1..(MaxPeerHeight - 1)
EvTimes == {0}
(* evpool.State().LastBlockTime: at the evidence's time, past it by more   *)
(* than MaxAgeDuration units of time.Duration, and past it by more than    *)
(* MaxAgeDuration milliseconds.                                            *)
LastBlockTimes == {0, MaxAgeDuration + 1, MaxAgeDuration * Millisecond + 1}

Evidences == [Height : EvHeights, Time : EvTimes]

(* clist.CList: evList[e] is element e = [Value, next, removed]; elements  *)
(* are named by the order in which they were pushed, 0 is nil.             *)
ElemIds == 1..Len(evList)
InList(e) == e \in ElemIds /\ ~evList[e].removed
EvidenceTail ==
    IF \E e \in ElemIds : InList(e)
    THEN CHOOSE e \in ElemIds : InList(e) /\ \A f \in ElemIds : InList(f) => f <= e
    ELSE 0
Prev(e) ==
    IF \E d \in ElemIds : InList(d) /\ d < e
    THEN CHOOSE d \in ElemIds : InList(d) /\ d < e /\ \A f \in ElemIds : (InList(f) /\ f < e) => f <= d
    ELSE 0

(* evpool.EvidenceFront() *)
EvidenceFront == evFront

(* evpool.EvidenceWaitChan(): closed while the list is not empty *)
EvidenceWaitChanClosed == evFront # 0

(* e.NextWaitChan(): closed once e has a successor, or e was removed as    *)
(* the last element                                                        *)
NextWaitChanClosed(e) == evList[e].next # 0 \/ evList[e].removed

(* Variant of checkSendEvidenceMessage without the "peer is behind" branch *)
checkSendIgnoringBehind(peer, ev, state) ==
    IF ~peer.has THEN [evis |-> <<>>, retry |-> TRUE]
    ELSE IF \/ peer.Height - ev.Height > MaxAgeNumBlocks
            \/ state.LastBlockTime - ev.Time > MaxAgeDuration * Millisecond
    THEN [evis |-> <<>>, retry |-> FALSE]
    ELSE [evis |-> <<ev>>, retry |-> FALSE]

(* evR.checkSendEvidenceMessage(peer, ev): (evis, retry) *)
checkSendEvidenceMessage(peer, ev, state) ==
    LET evHeight == ev.Height
        peerHeight == peer.Height
        ageDuration == state.LastBlockTime - ev.Time
        ageNumBlocks == peerHeight - evHeight
    IN IF ~peer.has THEN [evis |-> <<>>, retry |-> TRUE]
       ELSE IF peerHeight < evHeight THEN [evis |-> <<>>, retry |-> TRUE]
       ELSE IF \/ ageNumBlocks > MaxAgeNumBlocks
               \/ ageDuration > MaxAgeDuration * Millisecond
       THEN [evis |-> <<>>, retry |-> FALSE]
       ELSE [evis |-> <<ev>>, retry |-> FALSE]

NoCheck == [el |-> 0]

(* for { if !peer.IsRunning() || !evR.IsRunning() { return } ... *)
BrLoopHead ==
    /\ brPc = "loop"
    /\ brPc' = IF stopped # "none" THEN "done"
               ELSE IF brNext = 0 THEN "wait" ELSE "check"
    /\ UNCHANGED <<evList, evFront, evState, peerState, stopped, brNext, brLast>>
    /\ UNCHANGED nonEvVars

(* <-evR.evpool.EvidenceWaitChan() *)
BrWaitEvidence ==
    /\ brPc = "wait"
    /\ EvidenceWaitChanClosed
    /\ brPc' = "front"
    /\ UNCHANGED <<evList, evFront, evState, peerState, stopped, brNext, brLast>>
    /\ UNCHANGED nonEvVars

(* if next = evR.evpool.EvidenceFront(); next == nil { continue } *)
BrFront ==
    /\ brPc = "front"
    /\ brNext' = EvidenceFront
    /\ brPc' = IF EvidenceFront = 0 THEN "loop" ELSE "check"
    /\ UNCHANGED <<evList, evFront, evState, peerState, stopped, brLast>>
    /\ UNCHANGED nonEvVars

(* ev := next.Value; evis, retry := checkSendEvidenceMessage(peer, ev);    *)
(* if evis != nil { success := peer.Send(...); retry = !success }          *)
BrCheckSend ==
    /\ brPc = "check"
    /\ LET ev == evList[brNext].Value
           res == checkSendEvidenceMessage(peerState, ev, evState)
       IN \E success \in BOOLEAN :
            LET retry == IF res.evis # <<>> THEN ~success ELSE res.retry
            IN /\ (res.evis = <<>> => success)
               /\ brLast' = [el |-> brNext, ev |-> ev, peer |-> peerState,
                             state |-> evState, evis |-> res.evis,
                             checkRetry |-> res.retry, retry |-> retry]
               /\ brPc' = IF retry THEN "sleep" ELSE "select"
    /\ UNCHANGED <<evList, evFront, evState, peerState, stopped, brNext>>
    /\ UNCHANGED nonEvVars

(* time.Sleep(peerCatchupSleepIntervalMS * time.Millisecond); continue *)
BrSleep ==
    /\ brPc = "sleep"
    /\ brPc' = "loop"
    /\ UNCHANGED <<evList, evFront, evState, peerState, stopped, brNext, brLast>>
    /\ UNCHANGED nonEvVars

(* case <-afterCh: next = nil *)
BrSelectAfter ==
    /\ brPc = "select"
    /\ brNext' = 0
    /\ brPc' = "loop"
    /\ brLast' = NoCheck
    /\ UNCHANGED <<evList, evFront, evState, peerState, stopped>>
    /\ UNCHANGED nonEvVars

(* case <-next.NextWaitChan(): next = next.Next() *)
BrSelectNextWait ==
    /\ brPc = "select"
    /\ NextWaitChanClosed(brNext)
    /\ brNext' = evList[brNext].next
    /\ brPc' = "loop"
    /\ brLast' = NoCheck
    /\ UNCHANGED <<evList, evFront, evState, peerState, stopped>>
    /\ UNCHANGED nonEvVars

(* The pool pushes a new piece of evidence at the back of the list *)
PushEvidence ==
    /\ Len(evList) < MaxEvidence
    /\ \E ev \in Evidences :
         LET e == Len(evList) + 1
             tail == EvidenceTail
             linked == IF tail = 0 THEN evList
                       ELSE [evList EXCEPT ![tail].next = e]
         IN /\ evList' = Append(linked, [Value |-> ev, next |-> 0, removed |-> FALSE])
            /\ evFront' = IF tail = 0 THEN e ELSE evFront
    /\ UNCHANGED <<evState, peerState, stopped, brPc, brNext, brLast>>
    /\ UNCHANGED nonEvVars

(* The pool removes an element (its evidence was committed or has expired) *)
RemoveEvidence ==
    /\ \E e \in ElemIds :
         /\ InList(e)
         /\ LET prev == Prev(e)
                next == evList[e].next
                unlinked == IF prev = 0 THEN evList
                            ELSE [evList EXCEPT ![prev].next = next]
            IN /\ evList' = [unlinked EXCEPT ![e].removed = TRUE]
               /\ evFront' = IF prev = 0 THEN next ELSE evFront
    /\ UNCHANGED <<evState, peerState, stopped, brPc, brNext, brLast>>
    /\ UNCHANGED nonEvVars

(* The consensus reactor attaches the peer's state, and the peer's height  *)
(* advances                                                                *)
PeerStateAdvances ==
    /\ IF ~peerState.has
       THEN peerState' = [has |-> TRUE, Height |-> 0]
       ELSE /\ peerState.Height < MaxPeerHeight
            /\ peerState' = [peerState EXCEPT !.Height = @ + 1]
    /\ UNCHANGED <<evList, evFront, evState, stopped, brPc, brNext, brLast>>
    /\ UNCHANGED nonEvVars

(* A block is committed: the pool's state moves to a later LastBlockTime *)
BlockCommitted ==
    /\ \E t \in LastBlockTimes :
         /\ t > evState.LastBlockTime
         /\ evState' = [evState EXCEPT !.LastBlockTime = t]
    /\ UNCHANGED <<evList, evFront, peerState, stopped, brPc, brNext, brLast>>
    /\ UNCHANGED nonEvVars

(* The peer or the reactor stops *)
Stop ==
    /\ stopped = "none"
    /\ stopped' \in {"peer", "reactor"}
    /\ UNCHANGED <<evList, evFront, evState, peerState, brPc, brNext, brLast>>
    /\ UNCHANGED nonEvVars

-----------------------------------------------------------------------------
(* The evidence reactor: Receive                                           *)

(* Items of one list message *)
MaxBatch == 3

(* What decodeMsg makes of the bytes: the list unmarshals, every item      *)
(* converts from its proto form and passes ValidateBasic, or one of the    *)
(* three fails.                                                            *)
DecodeOutcomes == {"ok", "unmarshal", "from_proto", "validate_basic"}

(* The error evpool.AddEvidence returns for an item *)
AddErrors == {"nil", "ErrEvidenceInvalid", "ErrOther"}

SeqsUpTo(S, n) == UNION {[1..k -> S] : k \in 0..n}

Frames == [decode : DecodeOutcomes, items : SeqsUpTo(Evidences, MaxBatch)]

(* decodeMsg(bz): (evis, err) *)
decodeMsg(frame) ==
    IF frame.decode = "ok"
    THEN [evis |-> frame.items, err |-> FALSE]
    ELSE [evis |-> <<>>, err |-> TRUE]

(* evpool.AddEvidence(ev) returning err: the pool holds ev iff err is nil *)
AddEvidence(pool, ev, err) == IF err = "nil" THEN pool \cup {ev} ELSE pool

(* Variants of the switch on AddEvidence's error: no case punishes, and    *)
(* every error punishes                                                    *)
PunishNever(err) == FALSE
PunishAnyError(err) == err # "nil"

(* switch err.(type) { case *types.ErrEvidenceInvalid: punish peer, return *)
PunishPeer(err) == err = "ErrEvidenceInvalid"

(* for _, ev := range evis { ... }: the pool, the items passed to          *)
(* AddEvidence and whether the peer was stopped, from item i on            *)
RECURSIVE ReceiveLoop(_, _, _, _)
ReceiveLoop(evis, errs, i, acc) ==
    IF i > Len(evis) THEN acc
    ELSE LET pool == AddEvidence(acc.pool, evis[i], errs[i])
             calls == Append(acc.calls, i)
         IN IF PunishPeer(errs[i])
            THEN [pool |-> pool, calls |-> calls, stop |-> TRUE]
            ELSE ReceiveLoop(evis, errs, i + 1,
                             [pool |-> pool, calls |-> calls, stop |-> FALSE])

NoReceive == [frame |-> [decode |-> "none", items |-> <<>>]]

(* evR.Receive(chID, src, msgBytes) *)
Receive ==
    /\ rcvLast = NoReceive
    /\ srcPeer = "connected"
    /\ \E frame \in Frames :
         LET dec == decodeMsg(frame)
         IN IF dec.err
            THEN /\ srcPeer' = "stopped"
                 /\ rcvLast' = [frame |-> frame, errs |-> <<>>, calls |-> <<>>,
                                pre |-> evPool]
                 /\ UNCHANGED evPool
            ELSE \E errs \in [1..Len(dec.evis) -> AddErrors] :
                   LET res == ReceiveLoop(dec.evis, errs, 1,
                                          [pool |-> evPool, calls |-> <<>>,
                                           stop |-> FALSE])
                   IN /\ evPool' = res.pool
                      /\ srcPeer' = IF res.stop THEN "stopped" ELSE srcPeer
                      /\ rcvLast' = [frame |-> frame, errs |-> errs,
                                     calls |-> res.calls, pre |-> evPool]
    /\ UNCHANGED nonRcvVars

(* Receive has returned to the switch *)
ReceiveReturn ==
    /\ rcvLast # NoReceive
    /\ rcvLast' = NoReceive
    /\ UNCHANGED <<evPool, srcPeer>>
    /\ UNCHANGED nonRcvVars

(* The switch has added the peer again after it was stopped *)
ReceiveAddPeer ==
    /\ rcvLast = NoReceive
    /\ srcPeer = "stopped"
    /\ srcPeer' = "connected"
    /\ UNCHANGED <<evPool, rcvLast>>
    /\ UNCHANGED nonRcvVars

-----------------------------------------------------------------------------
(* The header chain                                                        *)

(* Height of the highest header of the model *)
MaxChain == 3

(* A *types.Header: its height, its hash and the hash SetHead follows to   *)
(* the header below it; the genesis header has nothing below it.           *)
HeaderAt(k) == [Height |-> k, Hash |-> k + 1, LastCommitHash |-> k]
Headers == {HeaderAt(k) : k \in 0..MaxChain}
NilHeader == [nil |-> TRUE]
NilHeight == [nil |-> TRUE]

(* hc.genesisHeader *)
genesisHeader == HeaderAt(0)

(* rawdb: the reads and the deletions SetHead and the lookups use *)
ReadCanonicalHash(db, height) ==
    IF height \in DOMAIN db.canonical THEN db.canonical[height] ELSE ZeroHash
ReadHeader(db, hash, height) ==
    IF \E h \in db.headers : h.Hash = hash /\ h.Height = height
    THEN CHOOSE h \in db.headers : h.Hash = hash /\ h.Height = height
    ELSE NilHeader
ReadHeaderHeight(db, hash) ==
    IF \E e \in db.heights : e.Hash = hash
    THEN CHOOSE e \in db.heights : e.Hash = hash
    ELSE NilHeight
DeleteHeader(batch, hash, height) ==
    [batch EXCEPT !.headers = @ \cup {[Hash |-> hash, Height |-> height]}]
DeleteCanonicalHash(batch, i) ==
    [batch EXCEPT !.canonical = @ \cup {i}]
(* batch.Write() *)
Write(db, batch) ==
    [db EXCEPT
       !.headers = {h \in @ : [Hash |-> h.Hash, Height |-> h.Height] \notin batch.headers},
       !.heights = {e \in @ : \A d \in batch.headers : d.Hash # e.Hash},
       !.canonical = [i \in DOMAIN @ |-> IF i \in batch.canonical THEN ZeroHash ELSE @[i]]]
WriteHeadHeaderHash(db, hash) == [db EXCEPT !.headHeaderHash = hash]

(* lru.Cache, holding fewer entries than its limit: Get *)
CacheGet(cache, hash) == {e \in cache : e.Hash = hash}

(* hc.GetHeader(hash, height): the header returned and the header cache *)
GetHeader(cache, db, hash, height) ==
    IF CacheGet(cache, hash) # {}
    THEN [header |-> CHOOSE e \in CacheGet(cache, hash) : TRUE, cache |-> cache]
    ELSE LET header == ReadHeader(db, hash, height)
         IN IF header = NilHeader
            THEN [header |-> NilHeader, cache |-> cache]
            ELSE [header |-> header, cache |-> cache \cup {header}]

(* hc.GetBlockHeight(hash): the height entry returned and the height cache *)
GetBlockHeight(cache, db, hash) ==
    IF CacheGet(cache, hash) # {}
    THEN [height |-> CHOOSE e \in CacheGet(cache, hash) : TRUE, cache |-> cache]
    ELSE LET height == ReadHeaderHeight(db, hash)
         IN IF height # NilHeight
            THEN [height |-> height, cache |-> cache \cup {height}]
            ELSE [height |-> NilHeight, cache |-> cache]

(* hc.GetHeaderByHeight(height): the header returned *)
GetHeaderByHeight(cache, db, height) ==
    LET hash == ReadCanonicalHash(db, height)
    IN IF hash = ZeroHash THEN NilHeader
       ELSE GetHeader(cache, db, hash, height).header

(* Variant of the loop condition that stops one header above head *)
RewindingStopsEarly(hdr, head) == hdr # NilHeader /\ hdr.Height > head + 1

(* hdr != nil && hdr.Height > head *)
Rewinding(hdr, head) == hdr # NilHeader /\ hdr.Height > head

(* Variant without the fallback to the genesis header *)
KeepCurrentHeader(hdr) == hdr

(* if hc.CurrentHeader() == nil { hc.currentHeader.Store(hc.genesisHeader) } *)
ResetToGenesis(hdr) == IF hdr = NilHeader THEN genesisHeader ELSE hdr

EmptyBatch == [headers |-> {}, canonical |-> {}]
NoSetHead == [done |-> FALSE, calls |-> <<>>, missing |-> FALSE, afterMissing |-> 0]

(* hc.SetHead(head, delFn) is called: height, batch *)
SetHeadCall ==
    /\ shPc = "idle"
    /\ \E head \in 0..MaxChain :
         /\ shHead' = head
         /\ shLast' = [done |-> FALSE, head |-> head, from |-> currentHeader,
                       db |-> chainDb, calls |-> <<>>, missing |-> FALSE,
                       afterMissing |-> 0]
    /\ shHeight' = IF currentHeader # NilHeader THEN currentHeader.Height ELSE 0
    /\ shBatch' = EmptyBatch
    /\ shPc' = "loop"
    /\ UNCHANGED <<chainDb, headerCache, heightCache, currentHeader,
                   currentHeaderHash, rdPc, rdHeld, rdLast>>
    /\ UNCHANGED nonHcVars

(* One iteration of the rewinding loop, or its exit *)
SetHeadLoop ==
    /\ shPc = "loop"
    /\ LET hdr == currentHeader
       IN IF Rewinding(hdr, shHead)
          THEN LET got == GetHeader(headerCache, chainDb, hdr.LastCommitHash,
                                    hdr.Height - 1)
               IN /\ shBatch' = DeleteHeader(shBatch, hdr.Hash, hdr.Height)
                  /\ shLast' = [shLast EXCEPT
                                  !.calls = Append(@, hdr.Hash),
                                  !.missing = (got.header = NilHeader),
                                  !.afterMissing = IF shLast.missing THEN @ + 1 ELSE @]
                  /\ currentHeader' = got.header
                  /\ headerCache' = got.cache
                  /\ UNCHANGED shPc
          ELSE /\ shPc' = "write"
               /\ UNCHANGED <<shBatch, shLast, currentHeader, headerCache>>
    /\ UNCHANGED <<chainDb, heightCache, currentHeaderHash, shHead, shHeight,
                   rdPc, rdHeld, rdLast>>
    /\ UNCHANGED nonHcVars

(* for i := height; i > head; i-- { DeleteCanonicalHash }; batch.Write() *)
RECURSIVE RollBackCanonical(_, _, _)
RollBackCanonical(batch, i, head) ==
    IF i > head THEN RollBackCanonical(DeleteCanonicalHash(batch, i), i - 1, head)
    ELSE batch

SetHeadWrite ==
    /\ shPc = "write"
    /\ shBatch' = RollBackCanonical(shBatch, shHeight, shHead)
    /\ chainDb' = Write(chainDb, shBatch')
    /\ shPc' = "purgeHeaderCache"
    /\ UNCHANGED <<headerCache, heightCache, currentHeader, currentHeaderHash,
                   shHead, shHeight, shLast, rdPc, rdHeld, rdLast>>
    /\ UNCHANGED nonHcVars

(* hc.headerCache.Purge() *)
SetHeadPurgeHeaderCache ==
    /\ shPc = "purgeHeaderCache"
    /\ headerCache' = {}
    /\ shPc' = "purgeHeightCache"
    /\ UNCHANGED <<chainDb, heightCache, currentHeader, currentHeaderHash,
                   shHead, shHeight, shBatch, shLast, rdPc, rdHeld, rdLast>>
    /\ UNCHANGED nonHcVars

(* hc.heightCache.Purge() *)
SetHeadPurgeHeightCache ==
    /\ shPc = "purgeHeightCache"
    /\ heightCache' = {}
    /\ shPc' = "finish"
    /\ UNCHANGED <<chainDb, headerCache, currentHeader, currentHeaderHash,
                   shHead, shHeight, shBatch, shLast, rdPc, rdHeld, rdLast>>
    /\ UNCHANGED nonHcVars

(* The fallback to genesis, currentHeaderHash and WriteHeadHeaderHash *)
SetHeadFinish ==
    /\ shPc = "finish"
    /\ currentHeader' = ResetToGenesis(currentHeader)
    /\ currentHeaderHash' = IF currentHeader' = NilHeader THEN ZeroHash
                            ELSE currentHeader'.Hash
    /\ chainDb' = WriteHeadHeaderHash(chainDb, currentHeaderHash')
    /\ shLast' = [shLast EXCEPT !.done = TRUE]
    /\ shPc' = "idle"
    /\ UNCHANGED <<headerCache, heightCache, shHead, shHeight, shBatch,
                   rdPc, rdHeld, rdLast>>
    /\ UNCHANGED nonHcVars

NoLookup == [op |-> "none"]

(* A concurrent hc.GetHeader(hash, height), up to its read of the database *)
GetHeaderCall ==
    /\ rdPc = "idle"
    /\ \E hdr \in Headers, height \in 0..MaxChain :
         IF CacheGet(headerCache, hdr.Hash) # {}
         THEN /\ rdLast' = [op |-> "GetHeader", hash |-> hdr.Hash,
                            height |-> height,
                            store |-> ReadHeader(chainDb, hdr.Hash, height),
                            result |-> GetHeader(headerCache, chainDb, hdr.Hash,
                                                 height).header]
              /\ UNCHANGED <<rdPc, rdHeld>>
         ELSE LET header == ReadHeader(chainDb, hdr.Hash, height)
              IN /\ rdLast' = [op |-> "GetHeader", hash |-> hdr.Hash,
                               height |-> height, store |-> header,
                               result |-> header]
                 /\ rdHeld' = header
                 /\ rdPc' = IF header = NilHeader THEN "idle" ELSE "addHeader"
    /\ UNCHANGED <<chainDb, headerCache, heightCache, currentHeader,
                   currentHeaderHash, shPc, shHead, shHeight, shBatch, shLast>>
    /\ UNCHANGED nonHcVars

(* hc.headerCache.Add(hash, header); return header *)
GetHeaderAdd ==
    /\ rdPc = "addHeader"
    /\ headerCache' = headerCache \cup {rdHeld}
    /\ rdPc' = "idle"
    /\ rdHeld' = NilHeader
    /\ UNCHANGED <<chainDb, heightCache, currentHeader, currentHeaderHash,
                   shPc, shHead, shHeight, shBatch, shLast, rdLast>>
    /\ UNCHANGED nonHcVars

(* A concurrent hc.GetBlockHeight(hash), up to its read of the database *)
GetBlockHeightCall ==
    /\ rdPc = "idle"
    /\ \E hdr \in Headers :
         IF CacheGet(heightCache, hdr.Hash) # {}
         THEN /\ rdLast' = [op |-> "GetBlockHeight", hash |-> hdr.Hash,
                            result |-> GetBlockHeight(heightCache, chainDb,
                                                      hdr.Hash).height]
              /\ UNCHANGED <<rdPc, rdHeld>>
         ELSE LET height == ReadHeaderHeight(chainDb, hdr.Hash)
              IN /\ rdLast' = [op |-> "GetBlockHeight", hash |-> hdr.Hash,
                               result |-> height]
                 /\ rdHeld' = height
                 /\ rdPc' = IF height = NilHeight THEN "idle" ELSE "addHeight"
    /\ UNCHANGED <<chainDb, headerCache, heightCache, currentHeader,
                   currentHeaderHash, shPc, shHead, shHeight, shBatch, shLast>>
    /\ UNCHANGED nonHcVars

(* hc.heightCache.Add(hash, *height); return height *)
GetBlockHeightAdd ==
    /\ rdPc = "addHeight"
    /\ heightCache' = heightCache \cup {rdHeld}
    /\ rdPc' = "idle"
    /\ rdHeld' = NilHeader
    /\ UNCHANGED <<chainDb, headerCache, currentHeader, currentHeaderHash,
                   shPc, shHead, shHeight, shBatch, shLast, rdLast>>
    /\ UNCHANGED nonHcVars

(* The database of a chain whose head is at height top, with the headers   *)
(* at the heights in pruned missing from it                                *)
ChainDb(top, pruned) ==
    [headers |-> {HeaderAt(k) : k \in (0..top) \ pruned},
     heights |-> {[Hash |-> HeaderAt(k).Hash, Height |-> k] : k \in (0..top) \ pruned},
     canonical |-> [k \in 0..MaxChain |-> IF k <= top THEN HeaderAt(k).Hash
                                          ELSE ZeroHash],
     headHeaderHash |-> HeaderAt(top).Hash]

(* NewHeaderChain(chainDb, config) on a database whose head is at top: it  *)
(* has looked up the genesis header and the head header                    *)
HeaderChainAt(top, pruned) ==
    /\ chainDb = ChainDb(top, pruned)
    /\ headerCache = {genesisHeader, HeaderAt(top)}
    /\ heightCache = {[Hash |-> HeaderAt(top).Hash, Height |-> top]}
    /\ currentHeader = HeaderAt(top)
    /\ currentHeaderHash = HeaderAt(top).Hash
    /\ shPc = "idle"
    /\ shHead = 0
    /\ shHeight = 0
    /\ shBatch = EmptyBatch
    /\ shLast = NoSetHead
    /\ rdPc = "idle"
    /\ rdHeld = NilHeader
    /\ rdLast = NoLookup

HeaderChainIdle == HeaderChainAt(MaxChain, {})

-----------------------------------------------------------------------------
(* Specifications *)

MirrorIdle ==
    /\ running = TRUE
    /\ prs = NewPeerState
    /\ last = NoOp

(* evR.AddPeer(peer) has started the routine: var next *clist.CElement *)
EvidenceIdle ==
    /\ evList = <<>>
    /\ evFront = 0
    /\ evState = [LastBlockTime |-> 0]
    /\ peerState = [has |-> FALSE, Height |-> 0]
    /\ stopped = "none"
    /\ brPc = "loop"
    /\ brNext = 0
    /\ brLast = NoCheck

ReactorIdle ==
    /\ mtxLocked = FALSE
    /\ peerMsgQueue = <<>>
    /\ peerAlive = TRUE

(* AddPeer has started the routine *)
DataIdle ==
    /\ rs = [Height |-> 1, Round |-> 0, Proposal |-> NoProposal]
    /\ gdPc = "loop"
    /\ gdProposal = NoProposal
    /\ gdSends = 0
    /\ gdLast = NoSend
    /\ gdSentHR = {}

ReceiveIdle ==
    /\ evPool = {}
    /\ srcPeer = "connected"
    /\ rcvLast = NoReceive

-----------------------------------------------------------------------------
(* lib/rlp: the encoding of byte strings, unsigned integers and lists, and *)
(* its decoding, for payloads shorter than 56 bytes.  A byte is a number   *)
(* in 0..255, an encoding a sequence of bytes.                             *)

(* The minimal big-endian bytes of n: none for 0 *)
RECURSIVE BigEndian(_)
BigEndian(n) == IF n = 0 THEN <<>> ELSE BigEndian(n \div 256) \o <<n % 256>>

RECURSIVE FromBigEndian(_)
FromBigEndian(b) ==
    IF b = <<>> THEN 0
    ELSE FromBigEndian(SubSeq(b, 1, Len(b) - 1)) * 256 + b[Len(b)]

(* Variant: every string gets a length prefix, a single small byte too *)
EncodeStringAlwaysPrefixed(b) == <<128 + Len(b)>> \o b

(* A byte string: a single byte below 0x80 is its own encoding, any other  *)
(* string follows a prefix 0x80 + length                                   *)
EncodeString(b) ==
    IF Len(b) = 1 /\ b[1] < 128 THEN b ELSE <<128 + Len(b)>> \o b

(* An unsigned integer is the string of its minimal big-endian bytes *)
EncodeUint(n) == EncodeString(BigEndian(n))

RECURSIVE Concat(_)
Concat(items) == IF items = <<>> THEN <<>> ELSE Head(items) \o Concat(Tail(items))

(* A list, and a struct as the list of its fields: prefix 0xC0 + length of *)
(* the concatenated encodings of the items                                 *)
EncodeList(items) == <<192 + Len(Concat(items))>> \o Concat(items)

DecodeError == [ok |-> FALSE]

(* The item at the front of b: its kind, its content and what follows it *)
Split(b) ==
    IF b = <<>> THEN DecodeError
    ELSE IF b[1] < 128
    THEN [ok |-> TRUE, kind |-> "String", content |-> <<b[1]>>, rest |-> Tail(b)]
    ELSE IF b[1] < 184
    THEN LET n == b[1] - 128
         IN IF Len(b) < 1 + n THEN DecodeError
            ELSE IF n = 1 /\ b[2] < 128 THEN DecodeError
            ELSE [ok |-> TRUE, kind |-> "String", content |-> SubSeq(b, 2, 1 + n),
                  rest |-> SubSeq(b, 2 + n, Len(b))]
    ELSE IF b[1] >= 192 /\ b[1] < 248
    THEN LET n == b[1] - 192
         IN IF Len(b) < 1 + n THEN DecodeError
            ELSE [ok |-> TRUE, kind |-> "List", content |-> SubSeq(b, 2, 1 + n),
                  rest |-> SubSeq(b, 2 + n, Len(b))]
    ELSE DecodeError

(* A uint32 from the content of a string: at most four bytes, no leading   *)
(* zero                                                                    *)
DecodeUint32(item) ==
    IF ~item.ok THEN DecodeError
    ELSE IF item.kind # "String" \/ Len(item.content) > 4 THEN DecodeError
    ELSE IF item.content # <<>> /\ item.content[1] = 0 THEN DecodeError
    ELSE [ok |-> TRUE, val |-> FromBigEndian(item.content)]

-----------------------------------------------------------------------------
(* The rlp test types Simple and SimpleSet, and EncodeThenDecode *)

(* Longest SimpleSet.Set of the model *)
MaxSetLen == 2

(* Values of X and Y on both sides of the one-byte and two-byte encodings *)
SimpleValues == {0, 1, 127, 128, 256}
NilSimple == [nil |-> TRUE]
Simples == [X : SimpleValues, Y : SimpleValues]
SimpleSets == [Set : UNION {[1..n -> Simples] : n \in 0..MaxSetLen}]

(* func (x *Simple) Equal(y *Simple) bool *)
SimpleEqual(x, y) ==
    IF x = NilSimple /\ y = NilSimple THEN TRUE
    ELSE IF x = NilSimple \/ y = NilSimple THEN FALSE
    ELSE x.X = y.X /\ x.Y = y.Y

(* func (x *SimpleSet) Equal(y *SimpleSet) bool *)
SimpleSetEqual(x, y) ==
    IF Len(x.Set) # Len(y.Set) THEN FALSE
    ELSE \A i \in 1..Len(x.Set) : SimpleEqual(x.Set[i], y.Set[i])

(* Encode(b, x) for a SimpleSet: the struct is the list of its one field,  *)
(* the slice the list of its elements, each the list of X and Y            *)
EncodeSimple(s) == EncodeList(<<EncodeUint(s.X), EncodeUint(s.Y)>>)
Encode(x) ==
    EncodeList(<<EncodeList([i \in 1..Len(x.Set) |-> EncodeSimple(x.Set[i])])>>)

DecodeSimple(item) ==
    IF ~item.ok THEN DecodeError
    ELSE IF item.kind # "List" THEN DecodeError
    ELSE LET fx == Split(item.content)
             dx == DecodeUint32(fx)
         IN IF ~dx.ok THEN DecodeError
            ELSE LET fy == Split(fx.rest)
                     dy == DecodeUint32(fy)
                 IN IF ~dy.ok THEN DecodeError
                    ELSE IF fy.rest # <<>> THEN DecodeError
                    ELSE [ok |-> TRUE, val |-> [X |-> dx.val, Y |-> dy.val]]

RECURSIVE DecodeSimples(_)
DecodeSimples(payload) ==
    IF payload = <<>> THEN [ok |-> TRUE, val |-> <<>>]
    ELSE LET item == Split(payload)
             elem == DecodeSimple(item)
         IN IF ~elem.ok THEN DecodeError
            ELSE LET others == DecodeSimples(item.rest)
                 IN IF ~others.ok THEN DecodeError
                    ELSE [ok |-> TRUE, val |-> <<elem.val>> \o others.val]

(* Decode(r, &y) into a SimpleSet *)
Decode(b) ==
    LET struct == Split(b)
    IN IF ~struct.ok THEN DecodeError
       ELSE IF struct.kind # "List" THEN DecodeError
       ELSE LET field == Split(struct.content)
            IN IF ~field.ok THEN DecodeError
               ELSE IF field.kind # "List" \/ field.rest # <<>> THEN DecodeError
               ELSE LET set == DecodeSimples(field.content)
                    IN IF ~set.ok THEN DecodeError
                       ELSE [ok |-> TRUE, val |-> [Set |-> set.val]]

EmptySimpleSet == [Set |-> <<>>]

(* EncodeThenDecode(t, x): t.Fatalf on a decoding error *)
EncodeThenDecode ==
    /\ rlpPc = "start"
    /\ rlpBuf' = Encode(rlpIn)
    /\ LET y == Decode(rlpBuf')
       IN IF y.ok
          THEN rlpOut' = y.val /\ rlpPc' = "done"
          ELSE rlpOut' = EmptySimpleSet /\ rlpPc' = "fatal"
    /\ UNCHANGED <<rlpIn, signProposal, signChainID, signLast>>
    /\ UNCHANGED <<mirrorVars, evVars, rcvVars, reactorVars, dataVars, hcVars>>

-----------------------------------------------------------------------------
(* types.Proposal and the bytes that are signed *)

(* A uint32 as its two 16-bit halves *)
Uint32(n) == [hi |-> n \div (2 ^ 16), lo |-> n % (2 ^ 16)]

(* Go's conversion uint32(i) of a signed 32-bit i: i modulo 2^32 *)
ToUint32(i) ==
    IF i >= 0 THEN Uint32(i)
    ELSE [hi |-> (2 ^ 16) - 1 - ((-i - 1) \div (2 ^ 16)),
          lo |-> (2 ^ 16) - 1 - ((-i - 1) % (2 ^ 16))]

(* a < b on two uint32 *)
LessThan(a, b) == a.hi < b.hi \/ (a.hi = b.hi /\ a.lo < b.lo)

RECURSIVE StripZeros(_)
StripZeros(b) ==
    IF b # <<>> /\ b[1] = 0 THEN StripZeros(Tail(b)) ELSE b

EncodeUint32(u) ==
    EncodeString(StripZeros(<<u.hi \div 256, u.hi % 256, u.lo \div 256, u.lo % 256>>))

NilProposal == [nil |-> TRUE]
NilSignature == <<>>
(* "k" and "ka" *)
ChainIDs == {<<107>>, <<107, 97>>}
Signatures == {NilSignature, <<1>>, <<2>>}
Timestamps == {Now, Now + 1}
POLBlockIDs == BlockHashes \cup {ZeroHash}

(* NewProposal(height, round, polRound, polBlockID), time.Now().Unix()     *)
(* being now                                                               *)
NewProposal(height, round, polRound, polBlockID, now) ==
    [Height |-> height, Round |-> round, Timestamp |-> now,
     POLRound |-> polRound, POLBlockID |-> polBlockID,
     Signature |-> NilSignature]

(* The bytes of "proposal" *)
ProposalType == <<112, 114, 111, 112, 111, 115, 97, 108>>

(* A field of a struct handed to the encoder *)
Bytes(b) == [kind |-> "bytes", bytes |-> b]
Uint(n) == [kind |-> "uint", uint |-> n]
Uint32Field(u) == [kind |-> "uint32", uint32 |-> u]

(* Variant: the signature is one of the canonical fields *)
CreateCanonicalProposalWithSignature(chainID, p) ==
    <<Bytes(chainID), Bytes(ProposalType), Uint(p.Height), Uint32Field(p.Round),
      Uint32Field(p.POLRound), Uint(p.POLBlockID), Uint(p.Timestamp),
      Bytes(p.Signature)>>

(* CreateCanonicalProposal(chainID, p): chain id, type, height, round,     *)
(* POL round, POL block id and timestamp, in this order                    *)
CreateCanonicalProposal(chainID, p) ==
    <<Bytes(chainID), Bytes(ProposalType), Uint(p.Height), Uint32Field(p.Round),
      Uint32Field(p.POLRound), Uint(p.POLBlockID), Uint(p.Timestamp)>>

EncodeField(f) ==
    IF f.kind = "bytes" THEN EncodeString(f.bytes)
    ELSE IF f.kind = "uint" THEN EncodeUint(f.uint)
    ELSE EncodeUint32(f.uint32)

(* rlp.EncodeToBytes of a struct *)
EncodeToBytes(fields) ==
    EncodeList([i \in 1..Len(fields) |-> EncodeField(fields[i])])

(* func (p *Proposal) SignBytes(chainID string) []byte *)
SignBytes(chainID, p) == EncodeToBytes(CreateCanonicalProposal(chainID, p))

NoSign == [op |-> "none", bytes |-> <<>>, signature |-> NilSignature,
           round |-> 0, polRound |-> 0]

(* A proposer makes the proposal of a round: polRound is the round of its  *)
(* proof of lock, below the round, or -1 for none                          *)
CallNewProposal ==
    /\ \E height \in 1..MaxHeight, round \in 0..MaxRound, id \in POLBlockIDs,
          now \in Timestamps :
         \E polRound \in -1..(round - 1) :
            /\ signProposal' = NewProposal(height, ToUint32(round), ToUint32(polRound),
                                           id, now)
            /\ signLast' = [NoSign EXCEPT !.op = "NewProposal", !.round = round,
                                          !.polRound = polRound]
    /\ UNCHANGED <<signChainID, rlpIn, rlpBuf, rlpOut, rlpPc>>
    /\ UNCHANGED <<mirrorVars, evVars, rcvVars, reactorVars, dataVars, hcVars>>

(* p.SignBytes(chainID) *)
CallSignBytes ==
    /\ signProposal # NilProposal
    /\ signLast' = [signLast EXCEPT !.op = "SignBytes",
                                    !.bytes = SignBytes(signChainID, signProposal),
                                    !.signature = signProposal.Signature]
    /\ UNCHANGED <<signProposal, signChainID, rlpIn, rlpBuf, rlpOut, rlpPc>>
    /\ UNCHANGED <<mirrorVars, evVars, rcvVars, reactorVars, dataVars, hcVars>>

(* The signer stores a signature in p.Signature; signLast keeps the bytes  *)
(* p.SignBytes(chainID) gave before                                        *)
SetSignature ==
    /\ signProposal # NilProposal
    /\ \E sig \in Signatures \ {signProposal.Signature} :
         signProposal' = [signProposal EXCEPT !.Signature = sig]
    /\ signLast' = [signLast EXCEPT !.op = "SetSignature",
                                    !.bytes = SignBytes(signChainID, signProposal),
                                    !.signature = signProposal.Signature]
    /\ UNCHANGED <<signChainID, rlpIn, rlpBuf, rlpOut, rlpPc>>
    /\ UNCHANGED <<mirrorVars, evVars, rcvVars, reactorVars, dataVars, hcVars>>

CodecIdle ==
    /\ signProposal = NilProposal
    /\ signChainID = <<107>>
    /\ signLast = NoSign
    /\ rlpIn = EmptySimpleSet
    /\ rlpBuf = <<>>
    /\ rlpOut = EmptySimpleSet
    /\ rlpPc = "start"

Init ==
    /\ MirrorIdle /\ EvidenceIdle /\ ReceiveIdle /\ ReactorIdle /\ DataIdle /\ CodecIdle
    /\ HeaderChainIdle

Next ==
    \/ ReceiveNewRoundStep
    \/ CallSetHasProposal
    \/ ReceiveHasVote
    \/ CallSetHasVote
    \/ Return

vars == <<running, prs, last, evList, evFront, evState, peerState, stopped,
          brPc, brNext, brLast, rcvVars, reactorVars, dataVars, hcVars, codecVars>>

Spec == Init /\ [][Next]_vars

(* PeerState.PRS is an exported field ("Exposed"): a mirror as a caller of *)
(* the package may hand it to the handlers.  A seed is NewPeerState's      *)
(* mirror moved to a height and round, with one commit round of any value  *)
(* and one of its bit arrays allocated, empty or with bit 0 set.           *)
BitArrayFields == {"ProposalPOL", "Prevotes", "Precommits", "LastCommit", "CatchupCommit"}

SeedBitArrays == {EmptyBits, SetIndex(EmptyBits, 0)}

SeedCommitRounds ==
    {cr \in Rounds \X Rounds : cr[1] = -1 \/ cr[2] = -1}

SeedStates ==
    {NewPeerState} \cup
    { [[NewPeerState EXCEPT !.Height = h, !.Round = r, !.Step = 1,
                            !.LastCommitRound = cr[1], !.CatchupCommitRound = cr[2]]
          EXCEPT ![f] = b] :
        h \in 1..(MaxHeight - 1), r \in 0..MaxRound, cr \in SeedCommitRounds,
        f \in BitArrayFields, b \in SeedBitArrays }

InitSeeded ==
    /\ running = TRUE
    /\ prs \in SeedStates
    /\ last = NoOp
    /\ EvidenceIdle
    /\ ReceiveIdle
    /\ ReactorIdle
    /\ DataIdle /\ CodecIdle
    /\ HeaderChainIdle

SpecSeeded == InitSeeded /\ [][Next]_vars

EvNext ==
    \/ BrLoopHead
    \/ BrWaitEvidence
    \/ BrFront
    \/ BrCheckSend
    \/ BrSleep
    \/ BrSelectAfter
    \/ BrSelectNextWait
    \/ PushEvidence
    \/ RemoveEvidence
    \/ PeerStateAdvances
    \/ BlockCommitted
    \/ Stop

EvSpec == Init /\ [][EvNext]_vars

(* The routine is a goroutine of its own: it is scheduled as long as it    *)
(* can take a step, and the timer of its select fires.  Nothing obliges    *)
(* the pool to receive new evidence.                                       *)
EvFairness ==
    /\ WF_vars(BrLoopHead)
    /\ WF_vars(BrWaitEvidence)
    /\ WF_vars(BrFront)
    /\ WF_vars(BrCheckSend)
    /\ WF_vars(BrSleep)
    /\ WF_vars(BrSelectAfter)

EvLive == Init /\ [][EvNext]_vars /\ EvFairness

(* afterCh is a timer of broadcastEvidenceIntervalS seconds started when   *)
(* the select is entered, while the channel of an element that has a       *)
(* successor or was removed is closed already: from every element whose    *)
(* channel is closed again and again the select takes that case in the     *)
(* end.                                                                    *)
EvDeliveryFairness ==
    /\ EvFairness
    /\ \A e \in 1..MaxEvidence : SF_vars(BrSelectNextWait /\ brNext = e)

EvDeliveryLive == Init /\ [][EvNext]_vars /\ EvDeliveryFairness

ReactorNext ==
    \/ ReceiveNewRoundStep
    \/ ReceiveNewProposal
    \/ ReceiveNewVote
    \/ ReceiveHasVote
    \/ ReceiveNewCommit
    \/ Return
    \/ ConsumePeerMsg
    \/ Start
    \/ StopReactor

ReactorSpec == Init /\ [][ReactorNext]_vars

DataNext ==
    \/ GdLoopHead
    \/ GdSendProposal
    \/ GdSleep
    \/ LocalStateAdvances
    \/ PeerDies
    \/ StopReactor

(* The routine is a goroutine of its own: it is scheduled as long as it    *)
(* can take a step.                                                        *)
DataFairness ==
    /\ WF_vars(GdLoopHead)
    /\ WF_vars(GdSendProposal)
    /\ WF_vars(GdSleep)

DataSpec == InitSeeded /\ [][DataNext]_vars /\ DataFairness

(* The routine next to the handler that moves the mirror, for the         *)
(* NewRoundStepMessages of a peer that has started its first round and    *)
(* whose other fields are fixed                                           *)
GossipRoundSteps ==
    {msg \in NewRoundStepMessages :
        /\ msg.Height >= 1 /\ msg.Round >= 0
        /\ msg.SecondsSinceStartTime = 0 /\ msg.LastCommitRound = -1}

GossipNext ==
    \/ GdLoopHead
    \/ GdSendProposal
    \/ GdSleep
    \/ LocalStateAdvances
    \/ ReceiveNewRoundStepFrom(GossipRoundSteps)
    \/ CallSetHasProposal
    \/ Return

GossipSpec == Init /\ [][GossipNext]_vars

(* A proposal made, signed and its bytes taken, for any chain id *)
ProposalInit ==
    /\ MirrorIdle /\ EvidenceIdle /\ ReceiveIdle /\ ReactorIdle /\ DataIdle
    /\ HeaderChainIdle
    /\ signProposal = NilProposal
    /\ signChainID \in ChainIDs
    /\ signLast = NoSign
    /\ rlpIn = EmptySimpleSet
    /\ rlpBuf = <<>>
    /\ rlpOut = EmptySimpleSet
    /\ rlpPc = "start"

ProposalNext ==
    \/ CallNewProposal
    \/ CallSignBytes
    \/ SetSignature

ProposalSpec == ProposalInit /\ [][ProposalNext]_vars

(* EncodeThenDecode on any SimpleSet without a nil element *)
RlpInit ==
    /\ MirrorIdle /\ EvidenceIdle /\ ReceiveIdle /\ ReactorIdle /\ DataIdle
    /\ HeaderChainIdle
    /\ signProposal = NilProposal
    /\ signChainID = <<107>>
    /\ signLast = NoSign
    /\ rlpIn \in SimpleSets
    /\ rlpBuf = <<>>
    /\ rlpOut = EmptySimpleSet
    /\ rlpPc = "start"

RlpNext == EncodeThenDecode

RlpSpec == RlpInit /\ [][RlpNext]_vars

(* A header chain opened on a database whose head is at any height, whole  *)
(* or with one header below the head missing                               *)
HcInit ==
    /\ MirrorIdle /\ EvidenceIdle /\ ReceiveIdle /\ ReactorIdle /\ DataIdle /\ CodecIdle
    /\ \E top \in 1..MaxChain :
         \E pruned \in {{}} \cup {{k} : k \in 1..(top - 1)} :
            HeaderChainAt(top, pruned)

HcNext ==
    \/ SetHeadCall
    \/ SetHeadLoop
    \/ SetHeadWrite
    \/ SetHeadPurgeHeaderCache
    \/ SetHeadPurgeHeightCache
    \/ SetHeadFinish
    \/ GetHeaderCall
    \/ GetHeaderAdd
    \/ GetBlockHeightCall
    \/ GetBlockHeightAdd

HcSpec == HcInit /\ [][HcNext]_vars

RcvNext ==
    \/ Receive
    \/ ReceiveReturn
    \/ ReceiveAddPeer

RcvSpec == Init /\ [][RcvNext]_vars

-----------------------------------------------------------------------------
(* Properties of the mirror.  Each is a predicate on (prs, last): last.pre *)
(* is the PRS before the operation that has just run, last.msg its input.  *)

(* (h1, r1, s1) <= (h2, r2, s2) in the lexicographic order *)
LexLeq(h1, r1, s1, h2, r2, s2) ==
    \/ h1 < h2
    \/ h1 = h2 /\ r1 < r2
    \/ h1 = h2 /\ r1 = r2 /\ s1 <= s2

Decoded(op) == last.op = op /\ last.ret \in {"ignored", "applied", "returned"}
AppliedNewRoundStep == last.op = "ReceiveNewRoundStep" /\ last.ret = "applied"

BitArraysOf(ps) ==
    <<ps.ProposalPOL, ps.Prevotes, ps.Precommits, ps.LastCommit, ps.CatchupCommit>>

(* C1: the mirror's (height, round, step) never decreases, whatever        *)
(* NewRoundStep messages arrive and in whatever order: after every         *)
(* operation the triple is at least the triple before it.                  *)
C1_HRSNeverDecreases ==
    LexLeq(last.pre.Height, last.pre.Round, last.pre.Step,
           prs.Height, prs.Round, prs.Step)

(* C1 witness: an accepted message moved the mirror to a higher height and *)
(* a lower round.                                                          *)
C1_Witness ==
    /\ AppliedNewRoundStep
    /\ prs.Height > last.pre.Height
    /\ prs.Round < last.pre.Round

(* C2: an accepted NewRoundStep that advances the height by exactly one    *)
(* with the prior round equal to msg.LastCommitRound leaves last_commit    *)
(* equal to the precommits held before the update, and precommits empty;   *)
(* every other accepted height change leaves last_commit null.             *)
C2_LastCommitIsShiftedPrecommits ==
    (AppliedNewRoundStep /\ last.msg.Height # last.pre.Height) =>
        IF /\ last.msg.Height = last.pre.Height + 1
           /\ last.pre.Round = last.msg.LastCommitRound
        THEN prs.LastCommit = last.pre.Precommits /\ prs.Precommits = NilBits
        ELSE prs.LastCommit = NilBits

(* C3: a NewRoundStep whose (height, round, step) is at most the mirror's  *)
(* leaves every field of the mirror unchanged.                             *)
C3_StaleNewRoundStepChangesNothing ==
    (/\ Decoded("ReceiveNewRoundStep")
     /\ LexLeq(last.msg.Height, last.msg.Round, last.msg.Step,
               last.pre.Height, last.pre.Round, last.pre.Step))
        => prs = last.pre

(* C3 witness: a message of the mirror's height with a lower round reached *)
(* a mirror that holds a proposal and an allocated bit array.              *)
C3_Witness ==
    /\ Decoded("ReceiveNewRoundStep")
    /\ last.ret = "ignored"
    /\ last.msg.Height = last.pre.Height
    /\ last.msg.Round < last.pre.Round
    /\ last.pre.Proposal
    /\ last.pre.LastCommit.alloc
    /\ last.pre.StartTime # Now - last.msg.SecondsSinceStartTime

C5_CatchupCommitRestored ==
    (/\ AppliedNewRoundStep
     /\ last.msg.Height = last.pre.Height
     /\ last.msg.Round # last.pre.Round
     /\ last.msg.Round = last.pre.CatchupCommitRound)
        => prs.Precommits = last.pre.CatchupCommit

(* C6: set_has_proposal is idempotent at a matching (height, round): a     *)
(* second call with the same proposal leaves the mirror as the first call  *)
(* left it; at a (height, round) that does not match it changes nothing.   *)
C6_SetHasProposalIdempotent ==
    last.op = "SetHasProposal" =>
        IF last.msg.Height = last.pre.Height /\ last.msg.Round = last.pre.Round
        THEN SetHasProposal(prs, last.msg) = prs
        ELSE prs = last.pre

(* C6 witness: the first call recorded the proposal on a mirror that held  *)
(* none.                                                                   *)
C6_Witness ==
    /\ last.op = "SetHasProposal"
    /\ last.msg.Height = last.pre.Height
    /\ last.msg.Round = last.pre.Round
    /\ ~last.pre.Proposal
    /\ prs.Proposal
    /\ prs.ProposalPOLRound = last.msg.POLRound
    /\ prs.ProposalPOLRound # last.pre.ProposalPOLRound

(* C7: after apply_has_vote(msg) with msg's height and round equal to the  *)
(* mirror's and a valid vote type, a snapshot of the mirror has bit        *)
(* msg.index set in prevotes (Prevote) or precommits (Precommit).          *)
C7_HasVoteSetsBit ==
    (/\ Decoded("ReceiveHasVote")
     /\ last.msg.Height = last.pre.Height
     /\ last.msg.Round = last.pre.Round
     /\ IsVoteTypeValid(last.msg.Type))
        => LET snapshot == GetRoundState(prs)
               b == IF last.msg.Type = "Prevote"
                    THEN snapshot.Prevotes ELSE snapshot.Precommits
           IN b.alloc /\ last.msg.Index \in b.bits

(* C8 as claimed: apply_has_vote and set_has_vote change no bit array when *)
(* the height of the message or vote differs from the mirror's.            *)
C8_HeightMismatchChangesNoBitArray ==
    (/\ Decoded("ReceiveHasVote") \/ Decoded("SetHasVote")
     /\ last.msg.Height # last.pre.Height)
        => BitArraysOf(prs) = BitArraysOf(last.pre)

(* C8 as amended: apply_has_vote changes nothing when the message's height *)
(* differs from the mirror's.  set_has_vote has no height check: for a     *)
(* Precommit vote of the mirror's height minus one whose round is          *)
(* last_commit_round it sets bit vote.index of a non-null last_commit, and *)
(* for every other vote of a differing height it changes nothing.          *)
C8_HeightMismatchAmended ==
    /\ (Decoded("ReceiveHasVote") /\ last.msg.Height # last.pre.Height)
          => prs = last.pre
    /\ (Decoded("SetHasVote") /\ last.msg.Height # last.pre.Height)
          => IF /\ last.msg.Height + 1 = last.pre.Height
                /\ last.msg.Round = last.pre.LastCommitRound
                /\ last.msg.Type = "Precommit"
                /\ last.pre.LastCommit.alloc
             THEN prs = [last.pre EXCEPT !.LastCommit.bits = @ \cup {last.msg.Index}]
             ELSE prs = last.pre

(* C8 witness: set_has_vote for the previous height set a new bit of       *)
(* last_commit.                                                            *)
C8_Witness ==
    /\ Decoded("SetHasVote")
    /\ last.msg.Height + 1 = last.pre.Height
    /\ last.msg.Index \notin last.pre.LastCommit.bits
    /\ last.msg.Index \in prs.LastCommit.bits

-----------------------------------------------------------------------------
(* Properties of the evidence broadcast routine.  brLast holds what the    *)
(* routine's last call of checkSendEvidenceMessage read and returned.      *)

Checked == brLast # NoCheck
AgeNumBlocks == brLast.peer.Height - brLast.ev.Height
AgeDuration == brLast.state.LastBlockTime - brLast.ev.Time
PeerBehind == ~brLast.peer.has \/ brLast.peer.Height < brLast.ev.Height

(* C9: the routine never sends an item when, at the time of the check,     *)
(* peer_height - ev.height > max_age_blocks or last_block_time - ev.time > *)
(* max_age_duration, max_age_duration being a duration as it stands; the   *)
(* item is skipped with retry = false.                                     *)
C9_OldEvidenceNeverSent ==
    (/\ Checked
     /\ brLast.peer.has
     /\ brLast.peer.Height >= brLast.ev.Height
     /\ AgeNumBlocks > MaxAgeNumBlocks \/ AgeDuration > MaxAgeDuration)
        => brLast.evis = <<>> /\ ~brLast.checkRetry

(* C10: the routine never sends an item to a peer whose known height is    *)
(* below the evidence's height; for such a peer, and for a peer without a  *)
(* state, the check returns (empty, retry = true) and the routine goes     *)
(* through its sleep back to the check with its cursor on the same item.   *)
C10_BehindPeerRetriesSameItem ==
    Checked =>
        /\ brLast.evis # <<>> =>
              brLast.peer.has /\ brLast.peer.Height >= brLast.ev.Height
        /\ PeerBehind =>
              /\ brLast.evis = <<>>
              /\ brLast.checkRetry
              /\ brLast.retry
              /\ brPc \in {"sleep", "loop", "check", "done"}
              /\ brNext = brLast.el

(* C10 witness: after a check against a peer that has a state and is below *)
(* the evidence's height, the routine has slept and is about to check the  *)
(* same element again.                                                     *)
C10_Witness ==
    /\ Checked
    /\ brLast.peer.has
    /\ brLast.peer.Height < brLast.ev.Height
    /\ brPc = "check"
    /\ brNext = brLast.el

-----------------------------------------------------------------------------
(* Properties of the evidence reactor's Receive.  rcvLast holds the frame  *)
(* of the call that has just run, the error AddEvidence returned for each  *)
(* item, the items that were passed to AddEvidence, and the pool before.   *)

Received == rcvLast # NoReceive
ReceivedBatch == Received /\ rcvLast.frame.decode = "ok"
BatchItems == rcvLast.frame.items
InvalidAt(i) == i \in DOMAIN rcvLast.errs /\ rcvLast.errs[i] = "ErrEvidenceInvalid"
FirstInvalid == CHOOSE i \in DOMAIN rcvLast.errs :
                    InvalidAt(i) /\ \A j \in 1..(i - 1) : ~InvalidAt(j)
PassedToAdd == {rcvLast.calls[k] : k \in DOMAIN rcvLast.calls}

(* C11: when AddEvidence returns ErrEvidenceInvalid for an item of a       *)
(* batch, the source peer is stopped, the items up to and including the    *)
(* first invalid one are the only ones passed to AddEvidence, and the pool *)
(* holds what it held before plus the earlier items AddEvidence accepted.  *)
C11_InvalidItemEndsBatch ==
    (ReceivedBatch /\ \E i \in DOMAIN rcvLast.errs : InvalidAt(i)) =>
        /\ srcPeer = "stopped"
        /\ rcvLast.calls = [k \in 1..FirstInvalid |-> k]
        /\ evPool = rcvLast.pre \cup
                      {BatchItems[j] : j \in {k \in 1..(FirstInvalid - 1) :
                                                   rcvLast.errs[k] = "nil"}}

(* An item was added, the next one is invalid and one more follows it *)
C11_Witness ==
    /\ ReceivedBatch
    /\ Len(BatchItems) = 3
    /\ rcvLast.errs[1] = "nil"
    /\ rcvLast.errs[2] = "ErrEvidenceInvalid"
    /\ BatchItems[1] \notin rcvLast.pre
    /\ BatchItems[1] \in evPool
    /\ BatchItems[3] \notin evPool

(* C12: Receive stops the source peer only when the frame fails to decode  *)
(* or validate, or when a call of AddEvidence returned                     *)
(* ErrEvidenceInvalid; after a call that returned another error the peer   *)
(* is not stopped for it and the next item is passed to AddEvidence.       *)
C12_OnlyMalformedOrInvalidStopsPeer ==
    Received =>
        /\ srcPeer = "stopped" =>
               \/ rcvLast.frame.decode # "ok"
               \/ \E i \in PassedToAdd : InvalidAt(i)
        /\ ReceivedBatch =>
               \A i \in PassedToAdd :
                   (rcvLast.errs[i] = "ErrOther" /\ i < Len(BatchItems)) =>
                       i + 1 \in PassedToAdd
        /\ (ReceivedBatch /\ \A i \in DOMAIN rcvLast.errs : ~InvalidAt(i)) =>
               /\ srcPeer = "connected"
               /\ PassedToAdd = DOMAIN BatchItems

(* A transient error on the first item, and the rest of the batch handled *)
C12_Witness ==
    /\ ReceivedBatch
    /\ Len(BatchItems) = 3
    /\ rcvLast.errs[1] = "ErrOther"
    /\ rcvLast.errs[2] = "nil"
    /\ rcvLast.errs[3] = "ErrOther"
    /\ srcPeer = "connected"
    /\ PassedToAdd = {1, 2, 3}

-----------------------------------------------------------------------------
(* Properties of the consensus reactor's handlers.  last.queue is          *)
(* peerMsgQueue before the handler that has just run.                      *)

Handlers == {"ReceiveNewRoundStep", "ReceiveNewProposal", "ReceiveNewVote",
             "ReceiveHasVote", "ReceiveNewCommit"}

HandlerReturned(op) == last.op = op /\ last.ret = "returned"

(* C14: a handler that has returned has released ps.mtx, and no handler    *)
(* is left waiting for ps.mtx: whatever messages came in before, the next  *)
(* mirror operation acquires the mutex.                                    *)
C14_HandlersReleaseMutex ==
    /\ (last.op \in Handlers /\ last.ret \in {"returned", "ignored", "applied"})
           => ~mtxLocked
    /\ last.ret # "blocked"

(* C15: a message that fails to decode disconnects the source peer,        *)
(* changes no mirror and enqueues nothing.                                 *)
C15_DecodeFailureDisconnects ==
    (last.op \in Handlers /\ last.ret = "decode_error") =>
        /\ ~peerAlive
        /\ prs = last.pre
        /\ peerMsgQueue = last.queue

(* C16: a decoded Vote message received while the reactor runs is          *)
(* appended to peerMsgQueue; a decoded Proposal message is appended once,  *)
(* with the peer's id, and the mirror is what SetHasProposal makes of it.  *)
C16_VotesAndProposalsEnqueued ==
    /\ HandlerReturned("ReceiveNewVote") =>
           peerMsgQueue = Append(last.queue, msgInfo(last.msg, SrcID))
    /\ HandlerReturned("ReceiveNewProposal") =>
           /\ peerMsgQueue = Append(last.queue, msgInfo(last.msg, SrcID))
           /\ prs = SetHasProposal(last.pre, last.msg)

-----------------------------------------------------------------------------
(* Properties of the data gossip routine *)

HRMatch == rs.Height = prs.Height /\ rs.Round = prs.Round
SendFailed(n) == gdSends = n /\ gdLast.sent /\ gdLast.err

(* C17: when a send of the ProposalMessage has failed, the routine sends   *)
(* the proposal again, unless the local and the mirror's (height, round)   *)
(* stop matching or the peer or the reactor stops.                         *)
C17_FailedSendRetried ==
    \A n \in 1..(MaxSends - 1) :
        SendFailed(n) ~> (gdSends > n \/ ~HRMatch \/ ~peerAlive \/ ~running)

-----------------------------------------------------------------------------
(* Termination of the gossip routines *)

(* C13: once the peer or the reactor has stopped, the evidence broadcast   *)
(* routine terminates, wherever it was waiting.                            *)
C13_BroadcastRoutineTerminates ==
    (stopped # "none") ~> (brPc = "done")

-----------------------------------------------------------------------------
(* Properties of HeaderChain.SetHead.  shLast holds the argument of the    *)
(* last call, the current header and the database before it, the hashes    *)
(* handed to the delete callback and to DeleteHeader, and whether the last *)
(* lookup of a predecessor found nothing.                                  *)

SetHeadReturned == shPc = "idle" /\ shLast.done

(* The chain below hdr as SetHead follows it in a database *)
RECURSIVE ChainFrom(_, _)
ChainFrom(hdr, db) ==
    IF hdr = NilHeader THEN {}
    ELSE {hdr} \cup ChainFrom(ReadHeader(db, hdr.LastCommitHash, hdr.Height - 1), db)

InStore(hdr) == ReadHeader(chainDb, hdr.Hash, hdr.Height) # NilHeader

(* C18: after SetHead(n) has returned the current header is at height n or *)
(* below, no height from n+1 to the previous head has a header by height,  *)
(* every header of the previous chain above n is deleted from the store,   *)
(* and the persisted head header hash is the current header's hash.        *)
C18_NothingAboveNewHead ==
    SetHeadReturned =>
        /\ currentHeader # NilHeader
        /\ currentHeader.Height <= shLast.head
        /\ \A h \in (shLast.head + 1)..shLast.from.Height :
               GetHeaderByHeight(headerCache, chainDb, h) = NilHeader
        /\ \A hdr \in ChainFrom(shLast.from, shLast.db) :
               hdr.Height > shLast.head => ~InStore(hdr)
        /\ chainDb.headHeaderHash = currentHeader.Hash

(* A whole chain of three headers above the genesis rewound to height 1 *)
C18_Witness ==
    /\ SetHeadReturned
    /\ shLast.from = HeaderAt(3)
    /\ shLast.head = 1
    /\ ~shLast.missing
    /\ currentHeader = HeaderAt(1)
    /\ Len(shLast.calls) = 2
    /\ InStore(HeaderAt(1))

(* C19: when the header below a rewound header is found neither in the     *)
(* cache nor in the store, that header is the last one handed to the       *)
(* delete callback and to DeleteHeader, and SetHead returns with the       *)
(* genesis header as the current header.                                   *)
C19_MissingPredecessorFallsBackToGenesis ==
    /\ shLast.afterMissing = 0
    /\ (SetHeadReturned /\ shLast.missing) =>
           /\ currentHeader = genesisHeader
           /\ currentHeaderHash = genesisHeader.Hash

(* The header at height 2 is missing: SetHead(0) from height 3 deletes one *)
(* header and falls back to genesis, with the header at height 1 still in  *)
(* the store                                                               *)
C19_Witness ==
    /\ SetHeadReturned
    /\ shLast.missing
    /\ shLast.from = HeaderAt(3)
    /\ shLast.head = 1
    /\ shLast.calls = <<HeaderAt(3).Hash>>
    /\ InStore(HeaderAt(1))
    /\ currentHeader = genesisHeader

(* C20: once SetHead and the concurrent lookups have finished, GetHeader   *)
(* and GetBlockHeight return nil for every header SetHead has deleted.     *)
C20_NoDeletedHeaderSurvivesInCache ==
    (SetHeadReturned /\ rdPc = "idle") =>
        \A i \in DOMAIN shLast.calls :
            LET hash == shLast.calls[i]
            IN /\ GetHeader(headerCache, chainDb, hash, hash - 1).header = NilHeader
               /\ GetBlockHeight(heightCache, chainDb, hash).height = NilHeight

-----------------------------------------------------------------------------
(* Further properties of the mirror *)

(* C24: an accepted NewRoundStep whose height is the mirror's height       *)
(* leaves LastCommit, LastCommitRound, CatchupCommitRound and              *)
(* CatchupCommit as they were.                                             *)
C24_SameHeightKeepsCommitFields ==
    (AppliedNewRoundStep /\ last.msg.Height = last.pre.Height) =>
        /\ prs.LastCommit = last.pre.LastCommit
        /\ prs.LastCommitRound = last.pre.LastCommitRound
        /\ prs.CatchupCommitRound = last.pre.CatchupCommitRound
        /\ prs.CatchupCommit = last.pre.CatchupCommit

-----------------------------------------------------------------------------
(* Further properties of the data gossip routine *)

(* C25: with the mirror's height positive and below the local height the   *)
(* routine runs the catch-up flow and goes on with its next iteration: it  *)
(* never aborts.                                                           *)
C25_CatchupContinuesLoop == gdPc # "panic"

(* The iteration decides to send: it leaves the head of the loop for the   *)
(* send of the ProposalMessage                                             *)
DecidesToSend == gdPc = "loop" /\ gdPc' = "send"
(* The iteration sends: gdLast' describes what went out *)
Sends == gdPc = "send" /\ gdLast' # gdLast

-----------------------------------------------------------------------------
(* The lookup of a vote bit array *)

(* The cases of the lookup as a table: the array for (h, r, t) in ps *)
VoteBitArrayCases(ps, h, r, t) ==
    CASE h = ps.Height /\ r = ps.Round /\ t = "Prevote" -> ps.Prevotes
      [] h = ps.Height /\ r = ps.Round /\ t = "Precommit" -> ps.Precommits
      [] h = ps.Height /\ r # ps.Round /\ r = ps.ProposalPOLRound /\ t = "Prevote" ->
             ps.ProposalPOL
      [] h + 1 = ps.Height /\ r = ps.LastCommitRound /\ t = "Precommit" ->
             ps.LastCommit
      [] OTHER -> NilBits

(* C26: getVoteBitArray(h, r, t) returns Prevotes or Precommits by type    *)
(* when h and r are the mirror's height and round; else ProposalPOL for a  *)
(* prevote when h is the mirror's height and r its ProposalPOLRound; else  *)
(* LastCommit for a precommit when h + 1 is the mirror's height and r its  *)
(* LastCommitRound; nil in every other case, an invalid type included.     *)
(* The lookup is a function of the mirror and changes nothing in it.       *)
C26_VoteBitArrayCases ==
    \A h \in Heights, r \in Rounds, t \in VoteTypes :
        getVoteBitArray(prs, h, r, t) = VoteBitArrayCases(prs, h, r, t)
C26_Witness ==
    /\ last.op = "SetHasVote"
    /\ getVoteBitArray(last.pre, last.msg.Height, last.msg.Round, last.msg.Type)
           = last.pre.ProposalPOL
    /\ last.pre.ProposalPOL.alloc
    /\ prs.ProposalPOL # last.pre.ProposalPOL
    /\ getVoteBitArray(prs, prs.Height - 1, prs.LastCommitRound, "Precommit")
           = prs.LastCommit

-----------------------------------------------------------------------------
(* Properties of the proposal and of the encoding *)

(* C21: the bytes that are signed do not depend on p.Signature: for every  *)
(* chain id, any two proposals that differ in the signature alone have the *)
(* same SignBytes.                                                         *)
C21_SignBytesIgnoreSignature ==
    /\ signProposal # NilProposal =>
           \A c \in ChainIDs, sig \in Signatures :
               SignBytes(c, [signProposal EXCEPT !.Signature = sig])
                   = SignBytes(c, signProposal)
    /\ signLast.op = "SetSignature" =>
           SignBytes(signChainID, signProposal) = signLast.bytes
C21_Witness ==
    /\ signLast.op = "SetSignature"
    /\ signProposal.Signature # signLast.signature
    /\ signProposal.Signature # NilSignature
    /\ signLast.signature # NilSignature

(* C22: in every proposal POLRound is less than Round; a proposal made     *)
(* with "no POL round" (-1) holds a POLRound that compares less than its   *)
(* round.                                                                  *)
C22_POLRoundBelowRound ==
    signProposal # NilProposal =>
        LessThan(signProposal.POLRound, signProposal.Round)

(* C23: for a set without a nil element, Encode and then Decode return no  *)
(* error and give a set of the same length with equal elements.            *)
C23_EncodeDecodeRoundTrip ==
    rlpPc # "start" =>
        /\ rlpPc = "done"
        /\ Len(rlpOut.Set) = Len(rlpIn.Set)
        /\ SimpleSetEqual(rlpIn, rlpOut)
C23_Witness ==
    /\ rlpPc = "done"
    /\ Len(rlpIn.Set) = MaxSetLen
    /\ rlpIn.Set[1].X = 128 /\ rlpIn.Set[1].Y = 0
    /\ rlpIn.Set[2].X = 256 /\ rlpIn.Set[2].Y = 127

(* The mirror is at hr with Proposal set, or at a later (height, round) *)
MarkedOrPast(hr) ==
    \/ HR(prs) = hr /\ prs.Proposal
    \/ prs.Height > hr.Height
    \/ prs.Height = hr.Height /\ prs.Round > hr.Round

(* C28: whatever the handlers of the peer's messages do in between, the    *)
(* routine sends the local proposal of a (height, round) at most once: for *)
(* every proposal it has sent the mirror either records Proposal = true at *)
(* that (height, round) or is at a greater one.                            *)
C28_ProposalSentOncePerRound ==
    /\ gdLast.sent => ~gdLast.again
    /\ \A hr \in gdSentHR : MarkedOrPast(hr)
C28_Witness ==
    /\ gdSends = MaxSends
    /\ \E hr \in gdSentHR : ~(HR(prs) = hr)
    /\ \E hr \in gdSentHR : HR(prs) = hr
    /\ last.op = "ReceiveNewRoundStep" /\ last.ret = "applied"

-----------------------------------------------------------------------------
(* The header cache against the database.  rdLast.store is what           *)
(* rawdb.ReadHeader gave, or would have given, for the lookup's hash and   *)
(* height when the lookup ran.                                             *)

(* C29: the header cache is transparent: whatever lookups and SetHead      *)
(* calls came before, hc.GetHeader(hash, height) returns what a read of    *)
(* the database for (hash, height) returns, also when height is not the    *)
(* height the header of that hash is stored under.                         *)
C29_HeaderCacheTransparent ==
    rdLast.op = "GetHeader" => rdLast.result = rdLast.store

-----------------------------------------------------------------------------
(* Delivery of the pending evidence *)

Pending(e) == e \in ElemIds /\ InList(e)

(* The peer and the reactor run, the peer has a state whose height is at   *)
(* least the height of every pending item, no pending item is too old, and *)
(* no send has failed                                                      *)
Favourable ==
    /\ stopped = "none"
    /\ peerState.has
    /\ \A f \in ElemIds :
         InList(f) =>
            /\ peerState.Height >= evList[f].Value.Height
            /\ peerState.Height - evList[f].Value.Height <= MaxAgeNumBlocks
            /\ evState.LastBlockTime - evList[f].Value.Time <= MaxAgeDuration
    /\ Checked => ~(brLast.evis # <<>> /\ brLast.retry)

(* The routine has just sent element e to the peer *)
SentElement(e) == Checked /\ brLast.el = e /\ brLast.evis # <<>> /\ ~brLast.retry

(* C30: while the peer stays running with a state at least as high as      *)
(* every pending item, no item is too old and every send succeeds, every   *)
(* item of the pending list is sent to the peer in the end, also one that  *)
(* was appended later or that the cursor reaches after a restart from the  *)
(* front.  An item counts when it stays pending.                           *)
C30_PendingEvidenceEventuallySent ==
    \A e \in 1..MaxEvidence :
        <>[](Favourable /\ Pending(e)) => <>SentElement(e)

=============================================================================
